---- MODULE Spec2Model ----
(***************************************************************************)
(* Query-answering pipeline of the on-chain explorer server:               *)
(* the intent router, the orchestration workflow (graph executor and       *)
(* sequential fallback executor), the event generator run_graph and the    *)
(* HTTP endpoints /query, /query/stream and /query/stream-raw that         *)
(* consume it; the NL-to-SQL planner behind /nlsql (LLM candidate, repair,  *)
(* validation, execution); and the hybrid search behind /search (RRF        *)
(* fusion of the lexical and the vector ranking, optional reranking).       *)
(*                                                                         *)
(* A query text is represented by the set of router keywords that occur    *)
(* in it as substrings (plus the pseudo keyword "digit" for "contains a    *)
(* decimal digit"): every classifier of the router is a test               *)
(* `any(k in query_lower for k in LIST)`, so this set determines the       *)
(* route.  Scores are in thousandths (0.015 is 15).                        *)
(***************************************************************************)
EXTENDS Integers, Sequences, FiniteSets, TLC

VARIABLES endpoint, request, executor, pc, state, nlsql_reply, search_reply,
          runs, clock, raised, pending, emitted, out, response,
          nlsql, retrieval, provider, app_db

vars == <<endpoint, request, executor, pc, state, nlsql_reply, search_reply,
          runs, clock, raised, pending, emitted, out, response,
          nlsql, retrieval, provider, app_db>>

\* ------------------------------------------------------------------ bounds
MaxCues == 1
MaxHits == 6
MaxCount == 2
MaxExamples == 2

\* ------------------------------------------------------- program constants
RelevanceThreshold == 15
DisplayLimit == 5
FallbackDisplay == 2
ExampleLimit == 5

\* ---------------------------------------------------------------- helpers
Min(a, b) == IF a < b THEN a ELSE b

Put(f, k, v) == [x \in (DOMAIN f) \cup {k} |-> IF x = k THEN v ELSE f[x]]

EmptyDict == [x \in {} |-> 0]

Take(s, n) == SubSeq(s, 1, Min(n, Len(s)))

\* --------------------------------------------------------- intent router
id_patterns ==
    {"proposal with id", "proposal id", "id is", "id =", "id:", "proposal #",
     "proposal number", "specific proposal", "details of proposal"}

detail_phrases == {"give me the details", "show me the details", "get the details"}

analytical_keywords ==
    {"how many", "count", "total", "number of", "amount", "amounts",
     "highest", "lowest", "average", "sum", "statistics",
     "most", "least", "maximum", "minimum", "show me proposal amounts"}

date_keywords ==
    {"recent", "after", "before", "between", "since", "until",
     "january", "february", "march", "april", "may", "june",
     "july", "august", "september", "october", "november", "december",
     "jan", "feb", "mar", "apr", "jun", "jul", "aug", "sep", "oct", "nov", "dec",
     "2024", "2025", "2026", "2027", "2028", "2029", "2030"}

date_patterns == {"YYYY-MM-DD", "MM/DD/YYYY", "YYYY/MM/DD", "M/D/YYYY"}

mixed_patterns == {"how many", "count", "total"}

example_patterns ==
    {"show some", "name a few", "give examples", "show examples",
     "and show", "and name", "and give", "and show some", "and name a few"}

network_filters == {"kusama", "polkadot", "westend", "rococo"}

type_filters == {"treasury", "council", "referendum", "bounty", "tip", "motion"}

filter_patterns == {"find", "what", "show me", "get", "list", "all"}

search_patterns ==
    {"find", "search", "show me", "tell me about", "what", "which",
     "get", "look for", "discover"}

entity_names ==
    {"clarys", "subsquare", "polkadot", "kusama", "treasury",
     "council", "referendum", "bounty", "tip"}

general_exclusions == {"how many", "count", "total", "amount"}

AnyIn(q, list) == q \cap list # {}

_is_exact_lookup(q) ==
    \/ AnyIn(q, id_patterns)
    \/ ("proposal" \in q /\ "digit" \in q)
    \/ AnyIn(q, detail_phrases)

_is_analytical_query(q) == AnyIn(q, analytical_keywords)

_is_date_filtered_query(q) == AnyIn(q, date_keywords) \/ AnyIn(q, date_patterns)

_is_mixed_query(q) == AnyIn(q, mixed_patterns) /\ AnyIn(q, example_patterns)

_is_filtered_query(q) ==
    (AnyIn(q, network_filters) \/ AnyIn(q, type_filters)) /\ AnyIn(q, filter_patterns)

\* mutant of _is_semantic_search_query: entity names are not a search cue
_is_semantic_search_query_no_entities(q) ==
    \/ AnyIn(q, search_patterns)
    \/ ("proposal" \in q /\ "digit" \notin q /\ ~AnyIn(q, general_exclusions))

_is_semantic_search_query(q) ==
    \/ AnyIn(q, search_patterns)
    \/ AnyIn(q, entity_names)
    \/ ("proposal" \in q /\ "digit" \notin q /\ ~AnyIn(q, general_exclusions))

\* mutant of _analyze_query_intent: the semantic test precedes the
\* structured-filter test
_analyze_query_intent_semantic_first(q) ==
    IF _is_exact_lookup(q) THEN "sql_agent"
    ELSE IF _is_mixed_query(q) THEN "sql_agent"
    ELSE IF _is_analytical_query(q) THEN "sql_agent"
    ELSE IF _is_date_filtered_query(q) THEN "sql_agent"
    ELSE IF _is_semantic_search_query(q) THEN "retrieval_agent"
    ELSE IF _is_filtered_query(q) THEN "sql_agent"
    ELSE "composer"

_analyze_query_intent(q) ==
    IF _is_exact_lookup(q) THEN "sql_agent"
    ELSE IF _is_mixed_query(q) THEN "sql_agent"
    ELSE IF _is_analytical_query(q) THEN "sql_agent"
    ELSE IF _is_date_filtered_query(q) THEN "sql_agent"
    ELSE IF _is_filtered_query(q) THEN "sql_agent"
    ELSE IF _is_semantic_search_query(q) THEN "retrieval_agent"
    ELSE "composer"

\* Keywords of the vocabulary from which query texts are drawn, and the
\* keywords each of them contains as a substring.
Cues == {"proposal", "proposal id", "digit", "how many", "show some",
         "recent", "treasury", "find", "clarys"}

Implied(c) ==
    CASE c = "proposal id" -> {"proposal"}
      [] c = "2025" -> {"digit"}
      [] c = "YYYY-MM-DD" -> {"digit"}
      [] OTHER -> {}

Queries ==
    {q \in SUBSET Cues :
        /\ Cardinality(q) <= MaxCues
        /\ \A c \in q : Implied(c) \subseteq q}

\* ------------------------------------------------- requests and queries
\* A query value as it reaches the endpoint: a text (its keyword set), the
\* empty string, a JSON value that is not a string (raw endpoint only), or
\* absent/falsy.
TextQuery(q) == [kind |-> "text", cues |-> q]

EmptyQuery == [kind |-> "empty", cues |-> {}]

NonStringQuery == [kind |-> "non_string", cues |-> {}]

MissingQuery == [kind |-> "missing", cues |-> {}]

StringQueries == {TextQuery(q) : q \in Queries} \cup {EmptyQuery}

Endpoints == {"/query", "/query/stream", "/query/stream-raw"}

StreamEndpoints == {"/query/stream", "/query/stream-raw"}

\* QueryRequest(query: str) is validated before the handler runs; the raw
\* endpoint reads any request body.
Requests(ep) ==
    IF ep = "/query/stream-raw"
    THEN {[body_ok |-> TRUE, query |-> v] :
              v \in StringQueries \cup {NonStringQuery, MissingQuery}}
         \cup {[body_ok |-> FALSE, query |-> MissingQuery]}
    ELSE {[body_ok |-> TRUE, query |-> v] : v \in StringQueries}

\* ------------------------------------------------- orchestration state
None == [kind |-> "none", error |-> FALSE, count |-> 0, examples |-> <<>>]

NoAnswer == <<"", 0, <<>>>>

Ids(rows) == [i \in 1..Len(rows) |-> rows[i].id]

InitialState(query) ==
    [query |-> query,
     route_decision |-> "",
     sql_query |-> "",
     sql_result |-> None,
     retrieval_hits |-> <<>>,
     reranked_results |-> <<>>,
     final_answer |-> NoAnswer,
     metadata |-> EmptyDict,
     processing_times |-> EmptyDict,
     proposals_for_descriptions |-> <<>>]

\* ---------------------------------------- replies of the called services
\* Rows of the examples query of a COUNT statement have no description
\* column; rows of a SELECT * have one, which may be NULL.
RowSeqs(descs) ==
    UNION {[1..n -> descs] : n \in 0..MaxExamples}

Rows(ds) == [i \in 1..Len(ds) |-> [id |-> i, description |-> ds[i]]]

CountSql == "SELECT COUNT(*) FROM proposals"

SelectSql == "SELECT * FROM proposals LIMIT 5"

NlsqlReplies ==
    {[kind |-> "ok", sql |-> CountSql, plan |-> "plan", count |-> c,
      examples |-> Rows(ds)] : c \in 0..MaxCount, ds \in RowSeqs({"absent"})}
    \cup
    {[kind |-> "ok", sql |-> SelectSql, plan |-> "plan", count |-> Len(ds),
      examples |-> Rows(ds)] : ds \in RowSeqs({"text", "null"})}
    \cup
    {[kind |-> k, sql |-> "", plan |-> "", count |-> 0, examples |-> <<>>] :
        k \in {"SQLSecurityError", "Exception"}}

NotCalled == [kind |-> "not_called"]

\* Hits carry the fused (RRF) score while their order is the reranking
\* service's order, so a hit list is any sequence of scores.
Scores == {12, 14, 16}

Hits(ss) == [i \in 1..Len(ss) |-> [id |-> i, score |-> ss[i]]]

SearchReplies ==
    {[kind |-> "ok", hits |-> Hits(ss)] :
        ss \in UNION {[1..n -> Scores] : n \in 0..MaxHits}}
    \cup {[kind |-> "Exception", hits |-> <<>>]}

\* ------------------------------------------------------------ stage nodes
_router_node(s, t) ==
    [s EXCEPT !.route_decision = _analyze_query_intent(s.query.cues),
              !.processing_times = Put(@, "router", t)]

\* query.lower() on a value that is not a string
RouterRaises(s) == s.query.kind = "non_string"

ErrorResult == [kind |-> "dict", error |-> TRUE, count |-> 0, examples |-> <<>>]

\* mutant of _sql_agent_node: the SQLSecurityError branch records no result
_sql_agent_node_unset(s, reply, t) ==
    CASE reply.kind = "ok" ->
           [s EXCEPT !.sql_query = reply.sql,
                     !.sql_result = [kind |-> "dict", error |-> FALSE,
                                     count |-> reply.count,
                                     examples |-> reply.examples],
                     !.metadata = Put(@, "sql_plan", reply.plan),
                     !.processing_times = Put(@, "sql_agent", t)]
      [] reply.kind = "SQLSecurityError" ->
           [s EXCEPT !.processing_times = Put(@, "sql_agent", t)]
      [] OTHER ->
           [s EXCEPT !.sql_result = ErrorResult,
                     !.processing_times = Put(@, "sql_agent", t)]

_sql_agent_node(s, reply, t) ==
    CASE reply.kind = "ok" ->
           [s EXCEPT !.sql_query = reply.sql,
                     !.sql_result = [kind |-> "dict", error |-> FALSE,
                                     count |-> reply.count,
                                     examples |-> reply.examples],
                     !.metadata = Put(@, "sql_plan", reply.plan),
                     !.processing_times = Put(@, "sql_agent", t)]
      [] reply.kind = "SQLSecurityError" ->
           [s EXCEPT !.sql_result = ErrorResult,
                     !.processing_times = Put(@, "sql_agent", t)]
      [] OTHER ->
           [s EXCEPT !.sql_result = ErrorResult,
                     !.processing_times = Put(@, "sql_agent", t)]

\* mutant of _retrieval_agent_node: processing_times is started afresh
_retrieval_agent_node_fresh_times(s, reply, t) ==
    [s EXCEPT !.retrieval_hits = IF reply.kind = "ok" THEN reply.hits ELSE <<>>,
              !.processing_times = Put(EmptyDict, "retrieval_agent", t)]

_retrieval_agent_node(s, reply, t) ==
    [s EXCEPT !.retrieval_hits = IF reply.kind = "ok" THEN reply.hits ELSE <<>>,
              !.processing_times = Put(@, "retrieval_agent", t)]

\* mutant of _rerank_node: the retrieval hits are preferred to the SQL examples
_rerank_node_hits_first(s, t) ==
    [s EXCEPT !.reranked_results =
                  IF s.retrieval_hits # <<>> THEN s.retrieval_hits
                  ELSE IF s.sql_result.kind = "dict" /\ ~s.sql_result.error
                  THEN s.sql_result.examples
                  ELSE <<>>,
              !.processing_times = Put(@, "rerank", t)]

_rerank_node(s, t) ==
    [s EXCEPT !.reranked_results =
                  IF s.sql_result.kind = "dict" /\ ~s.sql_result.error
                  THEN s.sql_result.examples
                  ELSE IF s.retrieval_hits # <<>> THEN s.retrieval_hits
                  ELSE <<>>,
              !.processing_times = Put(@, "rerank", t)]

IsRelevant(r) == r.score >= RelevanceThreshold

\* mutant of relevant_results: the composer caps the display at 3
relevant_results_top3(reranked_results) ==
    LET above == SelectSeq(reranked_results, IsRelevant)
        capped == IF Len(above) > 3 THEN Take(above, 3) ELSE above
    IN  IF capped = <<>> THEN Take(reranked_results, FallbackDisplay) ELSE capped

\* composer: relevance filter over reranked_results
relevant_results(reranked_results) ==
    LET above == SelectSeq(reranked_results, IsRelevant)
        capped == IF Len(above) > DisplayLimit THEN Take(above, DisplayLimit) ELSE above
    IN  IF capped = <<>> THEN Take(reranked_results, FallbackDisplay) ELSE capped

\* description[:200] of an example whose description is NULL
ComposerRaises(s) ==
    /\ s.route_decision = "sql_agent"
    /\ s.sql_result.kind = "dict"
    /\ s.sql_result.count > 0
    /\ \E i \in 1..Min(ExampleLimit, Len(s.sql_result.examples)) :
          s.sql_result.examples[i].description = "null"

_composer_node(s, t) ==
    LET route == s.route_decision
        body ==
          IF route = "sql_agent" /\ s.sql_result.kind = "dict"
          THEN IF s.sql_result.count > 0
               THEN [s EXCEPT !.final_answer =
                        <<"Found proposals", s.sql_result.count,
                          Ids(Take(s.sql_result.examples, ExampleLimit))>>]
               ELSE [s EXCEPT !.final_answer =
                        <<"No proposals found matching your criteria.", 0, <<>>>>]
          ELSE IF route = "retrieval_agent" /\ s.reranked_results # <<>>
          THEN LET rel == relevant_results(s.reranked_results)
               IN  [s EXCEPT !.final_answer =
                                <<"Found relevant proposals", Len(rel), Ids(rel)>>,
                             !.proposals_for_descriptions = rel]
          ELSE [s EXCEPT !.final_answer =
                   <<"I couldn't find any relevant information for your query.",
                     0, <<>>>>]
    IN  [body EXCEPT !.metadata = Put(@, "processing_type", route),
                     !.processing_times = Put(@, "composer", t)]

\* ------------------------------------------------------------- executors
Stages == {"router", "sql_agent", "retrieval_agent", "rerank_node", "composer"}

_route_decision(s) == s.route_decision

\* edges of the compiled graph: the node that follows `stage`
_create_graph(stage, s) ==
    CASE stage = "router" -> _route_decision(s)
      [] stage = "sql_agent" -> "rerank_node"
      [] stage = "retrieval_agent" -> "rerank_node"
      [] stage = "rerank_node" -> "composer"
      [] OTHER -> "END"

\* the sequential workflow: the node that follows `stage`
_run_fallback_workflow(stage, s) ==
    CASE stage = "router" ->
           IF s.route_decision = "sql_agent" THEN "sql_agent"
           ELSE IF s.route_decision = "retrieval_agent" THEN "retrieval_agent"
           ELSE "rerank_node"
      [] stage = "sql_agent" -> "rerank_node"
      [] stage = "retrieval_agent" -> "rerank_node"
      [] stage = "rerank_node" -> "composer"
      [] OTHER -> "END"

Executors == {"graph", "fallback"}

NextStage(exec, stage, s) ==
    IF exec = "graph" THEN _create_graph(stage, s)
    ELSE _run_fallback_workflow(stage, s)

StageRaises(stage, s) ==
    \/ stage = "router" /\ RouterRaises(s)
    \/ stage = "composer" /\ ComposerRaises(s)

ExceptionOf(stage) == IF stage = "router" THEN "AttributeError" ELSE "TypeError"

ApplyNode(stage, s, sqlReply, searchReply, t) ==
    CASE stage = "router" -> _router_node(s, t)
      [] stage = "sql_agent" -> _sql_agent_node(s, sqlReply, t)
      [] stage = "retrieval_agent" -> _retrieval_agent_node(s, searchReply, t)
      [] stage = "rerank_node" -> _rerank_node(s, t)
      [] OTHER -> _composer_node(s, t)

\* ------------------------------------------------ run_graph stage events
Event(stage, payload) == [stage |-> stage, payload |-> payload]

\* run_graph: display filter of the retrieval_hits event
relevant_hits(retrieval_hits) ==
    LET above == SelectSeq(retrieval_hits, IsRelevant)
        capped == IF Len(above) > DisplayLimit THEN Take(above, DisplayLimit) ELSE above
    IN  IF capped = <<>> THEN Take(retrieval_hits, FallbackDisplay) ELSE capped

\* mutant of branch_events: `else` instead of `elif route == retrieval_agent`
branch_events_else(result) ==
    LET has_sql == result.sql_result.kind = "dict"
        shown == relevant_hits(result.retrieval_hits)
    IN  IF result.route_decision = "sql_agent"
        THEN <<Event("sql_result",
                     [sql |-> result.sql_query,
                      count |-> IF has_sql THEN result.sql_result.count ELSE 0,
                      examples |-> IF has_sql THEN result.sql_result.examples
                                   ELSE <<>>])>>
        ELSE <<Event("retrieval_hits", [hits |-> shown, count |-> Len(shown)])>>

\* run_graph: the event that reports the branch the route selected
branch_events(result) ==
    LET has_sql == result.sql_result.kind = "dict"
        shown == relevant_hits(result.retrieval_hits)
    IN  IF result.route_decision = "sql_agent"
        THEN <<Event("sql_result",
                     [sql |-> result.sql_query,
                      count |-> IF has_sql THEN result.sql_result.count ELSE 0,
                      examples |-> IF has_sql THEN result.sql_result.examples
                                   ELSE <<>>])>>
        ELSE IF result.route_decision = "retrieval_agent"
        THEN <<Event("retrieval_hits", [hits |-> shown, count |-> Len(shown)])>>
        ELSE <<>>

\* run_graph: the two events that carry the composer's displayed proposals
description_events(result) ==
    (IF result.proposals_for_descriptions # <<>>
     THEN <<Event("proposal_descriptions",
                  [proposals |-> result.proposals_for_descriptions])>>
     ELSE <<>>)
    \o (IF result.proposals_for_descriptions # <<>>
        THEN <<Event("proposals_data",
                     [proposals |-> result.proposals_for_descriptions])>>
        ELSE <<>>)

\* the events run_graph yields, in order, once the workflow has returned
run_graph_events(result) ==
    <<Event("router_decision", [decision |-> result.route_decision])>>
    \o branch_events(result)
    \o <<Event("final_answer",
               [answer |-> result.final_answer,
                metadata |-> result.metadata,
                processing_times |-> result.processing_times])>>
    \o description_events(result)

ErrorEvent(error, message) ==
    Event("error", [error |-> error, message |-> message])

\* mutant of run_graph_error: the generator goes on to the final answer
run_graph_error_then_answer(e) ==
    <<ErrorEvent(e, "Failed to process query"),
      Event("final_answer",
            [answer |-> <<"No answer generated", 0, <<>>>>,
             metadata |-> EmptyDict, processing_times |-> EmptyDict])>>

\* mutant of run_graph_error: the error is reported by two handlers
run_graph_error_twice(e) ==
    <<ErrorEvent(e, "Failed to process query"),
      ErrorEvent(e, "Failed to process query")>>

\* the events run_graph yields when the workflow raised e
run_graph_error(e) == <<ErrorEvent(e, "Failed to process query")>>

\* ------------------------------------------------------------- endpoints
EventLine(event) == [line |-> "data: <json>", event |-> event]

DoneLine == [line |-> "data: [DONE]", event |-> Event("", <<>>)]

\* mutant of generate_stream_error: the except branch omits the end marker
generate_stream_error_no_done(e) ==
    <<EventLine(ErrorEvent(e, "Failed to process query"))>>

\* generate_stream: lines written by the except branch
generate_stream_error(e) ==
    <<EventLine(ErrorEvent(e, "Failed to process query")), DoneLine>>

\* process_query_stream_raw: lines written when the query is absent or empty
missing_query_lines ==
    <<EventLine(ErrorEvent("Missing query parameter", "Query parameter is required")),
      DoneLine>>

FirstIndex(events, stage) ==
    IF \E i \in 1..Len(events) : events[i].stage = stage
    THEN CHOOSE i \in 1..Len(events) :
            /\ events[i].stage = stage
            /\ \A j \in 1..(i - 1) : events[j].stage # stage
    ELSE 0

NoResponse == [kind |-> "none"]

\* process_query: the response built from the collected events
process_query(events) ==
    LET f == FirstIndex(events, "final_answer")
        q == FirstIndex(events, "sql_result")
        r == FirstIndex(events, "retrieval_hits")
    IN  [kind |-> "QueryResponse",
         status |-> 200,
         response |-> IF f > 0 THEN events[f].payload.answer
                      ELSE <<"No response generated", 0, <<>>>>,
         sql_query |-> IF q > 0 THEN events[q].payload.sql ELSE "None",
         results |-> IF r > 0 THEN events[r].payload.hits ELSE <<>>,
         metadata |-> IF f > 0 THEN events[f].payload.metadata ELSE EmptyDict]

HTTPException(detail) ==
    [kind |-> "HTTPException", status |-> 500, detail |-> detail]

\* ------------------------------------------------------------------- Init
Init ==
    /\ endpoint \in Endpoints
    /\ request \in Requests(endpoint)
    /\ executor = "unset"
    /\ pc = IF endpoint = "/query/stream-raw" THEN "parse" ELSE "get_service"
    /\ state = InitialState(request.query)
    /\ nlsql_reply = NotCalled
    /\ search_reply = NotCalled
    /\ runs = [st \in Stages |-> 0]
    /\ clock = 0
    /\ raised = "none"
    /\ pending = <<>>
    /\ emitted = <<>>
    /\ out = <<>>
    /\ response = NoResponse
    /\ provider = NotCalled
    /\ app_db = NotCalled
    /\ nlsql = NotCalled
    /\ retrieval = NotCalled

\* ---------------------------------------------------------------- actions
\* process_query_stream_raw: request.json() fails or the body has no .get
RawBodyError ==
    /\ pc = "parse"
    /\ ~request.body_ok
    /\ out' = out \o generate_stream_error("JSONDecodeError")
    /\ pc' = "closed"
    /\ UNCHANGED <<provider, app_db, nlsql, retrieval, endpoint, request, executor, state, nlsql_reply, search_reply,
                   runs, clock, raised, pending, emitted, response>>

RawMissingQuery ==
    /\ pc = "parse"
    /\ request.body_ok
    /\ request.query.kind \in {"missing", "empty"}
    /\ out' = out \o missing_query_lines
    /\ pc' = "closed"
    /\ UNCHANGED <<provider, app_db, nlsql, retrieval, endpoint, request, executor, state, nlsql_reply, search_reply,
                   runs, clock, raised, pending, emitted, response>>

RawAccept ==
    /\ pc = "parse"
    /\ request.body_ok
    /\ request.query.kind \notin {"missing", "empty"}
    /\ pc' = "get_service"
    /\ UNCHANGED <<provider, app_db, nlsql, retrieval, endpoint, request, executor, state, nlsql_reply, search_reply,
                   runs, clock, raised, pending, emitted, out, response>>

\* get_orchestration_service() builds the services and the graph; the graph
\* is None when the graph runtime is not installed
GetService ==
    /\ pc = "get_service"
    /\ \E ex \in Executors : executor' = ex
    /\ pc' = "router"
    /\ UNCHANGED <<provider, app_db, nlsql, retrieval, endpoint, request, state, nlsql_reply, search_reply,
                   runs, clock, raised, pending, emitted, out, response>>

\* get_orchestration_service() raises (a client cannot be constructed)
GetServiceFails ==
    /\ pc = "get_service"
    /\ pc' = "closed"
    /\ IF endpoint \in StreamEndpoints
       THEN /\ out' = out \o generate_stream_error("OpenAIError")
            /\ UNCHANGED response
       ELSE /\ response' = HTTPException("Query processing failed: OpenAIError")
            /\ UNCHANGED out
    /\ UNCHANGED <<provider, app_db, nlsql, retrieval, endpoint, request, executor, state, nlsql_reply, search_reply,
                   runs, clock, raised, pending, emitted>>

\* a node returned new_state: control moves along the executor's next edge;
\* after the last node run_graph starts yielding
Advance(stage, new_state) ==
    LET nxt == NextStage(executor, stage, new_state)
    IN  /\ state' = new_state
        /\ runs' = [runs EXCEPT ![stage] = @ + 1]
        /\ clock' = clock + 1
        /\ pc' = IF nxt = "END" THEN "yield" ELSE nxt
        /\ pending' = IF nxt = "END" THEN run_graph_events(new_state) ELSE pending

\* a node raised e: run_graph's except branch yields the error event
Raise(stage) ==
    /\ raised' = ExceptionOf(stage)
    /\ runs' = [runs EXCEPT ![stage] = @ + 1]
    /\ clock' = clock + 1
    /\ pc' = "yield"
    /\ pending' = run_graph_error(ExceptionOf(stage))
    /\ UNCHANGED <<provider, app_db, nlsql, retrieval, endpoint, request, executor, state, nlsql_reply, search_reply,
                   emitted, out, response>>

RouterStep ==
    /\ pc = "router"
    /\ ~RouterRaises(state)
    /\ Advance("router", _router_node(state, clock + 1))
    /\ UNCHANGED <<provider, app_db, nlsql, retrieval, endpoint, request, executor, nlsql_reply, search_reply,
                   raised, emitted, out, response>>

RouterRaise ==
    /\ pc = "router"
    /\ RouterRaises(state)
    /\ Raise("router")

SqlAgentStep ==
    /\ pc = "sql_agent"
    /\ \E reply \in NlsqlReplies :
          /\ nlsql_reply' = reply
          /\ Advance("sql_agent", _sql_agent_node(state, reply, clock + 1))
    /\ UNCHANGED <<provider, app_db, nlsql, retrieval, endpoint, request, executor, search_reply,
                   raised, emitted, out, response>>

RetrievalAgentStep ==
    /\ pc = "retrieval_agent"
    /\ \E reply \in SearchReplies :
          /\ search_reply' = reply
          /\ Advance("retrieval_agent", _retrieval_agent_node(state, reply, clock + 1))
    /\ UNCHANGED <<provider, app_db, nlsql, retrieval, endpoint, request, executor, nlsql_reply,
                   raised, emitted, out, response>>

RerankStep ==
    /\ pc = "rerank_node"
    /\ Advance("rerank_node", _rerank_node(state, clock + 1))
    /\ UNCHANGED <<provider, app_db, nlsql, retrieval, endpoint, request, executor, nlsql_reply, search_reply,
                   raised, emitted, out, response>>

ComposerStep ==
    /\ pc = "composer"
    /\ ~ComposerRaises(state)
    /\ Advance("composer", _composer_node(state, clock + 1))
    /\ UNCHANGED <<provider, app_db, nlsql, retrieval, endpoint, request, executor, nlsql_reply, search_reply,
                   raised, emitted, out, response>>

ComposerRaise ==
    /\ pc = "composer"
    /\ ComposerRaises(state)
    /\ Raise("composer")

\* run_graph yields its next event and the endpoint's loop consumes it
Yield ==
    /\ pc = "yield"
    /\ pending # <<>>
    /\ emitted' = Append(emitted, Head(pending))
    /\ pending' = Tail(pending)
    /\ out' = IF endpoint \in StreamEndpoints
              THEN Append(out, EventLine(Head(pending))) ELSE out
    /\ UNCHANGED <<provider, app_db, nlsql, retrieval, endpoint, request, executor, pc, state, nlsql_reply,
                   search_reply, runs, clock, raised, response>>

\* run_graph is exhausted: generate_stream writes the end marker
StreamDone ==
    /\ pc = "yield"
    /\ pending = <<>>
    /\ endpoint \in StreamEndpoints
    /\ out' = Append(out, DoneLine)
    /\ pc' = "closed"
    /\ UNCHANGED <<provider, app_db, nlsql, retrieval, endpoint, request, executor, state, nlsql_reply, search_reply,
                   runs, clock, raised, pending, emitted, response>>

\* run_graph is exhausted: process_query builds its response
QueryRespond ==
    /\ pc = "yield"
    /\ pending = <<>>
    /\ endpoint = "/query"
    /\ response' = process_query(emitted)
    /\ pc' = "closed"
    /\ UNCHANGED <<provider, app_db, nlsql, retrieval, endpoint, request, executor, state, nlsql_reply, search_reply,
                   runs, clock, raised, pending, emitted, out>>

Next ==
    \/ RawBodyError
    \/ RawMissingQuery
    \/ RawAccept
    \/ GetService
    \/ GetServiceFails
    \/ RouterStep
    \/ RouterRaise
    \/ SqlAgentStep
    \/ RetrievalAgentStep
    \/ RerankStep
    \/ ComposerStep
    \/ ComposerRaise
    \/ Yield
    \/ StreamDone
    \/ QueryRespond

Spec == Init /\ [][Next]_vars

\* every enabled step of the single request is eventually taken
FairSpec == Spec /\ WF_vars(Next)

\* =================================================================
\* NL-to-SQL planner (NLSQLService) and the /nlsql endpoint
\* =================================================================
\* An SQL text is the sequence of its ';'-separated statements.  A statement
\* is represented by what the SQL parser's syntax tree and its printer show
\* to the validator: the class of the root node, the table references (with
\* "some ancestor is a WITH node"), the names its WITH clause defines, the
\* column references, the standalone upper-case words of the printed text
\* that are dangerous keywords, its comment, and where a UNION sits.
MaxStatements == 2

ALLOWED_TABLES == {"proposals", "proposals_embeddings"}

ALLOWED_COLUMNS ==
    {"id", "network", "type", "title", "description", "proposer",
     "amount_numeric", "currency", "status", "created_at", "updated_at"}

cte_column_names == {"count", "samples", "data", "result", "row"}

cte_prefixes == {"kusama_", "polkadot_", "temp_", "cte_", "with_"}

dangerous_keywords ==
    {"INSERT", "UPDATE", "DELETE", "DROP", "CREATE",
     "ALTER", "TRUNCATE", "EXEC", "EXECUTE"}

\* an identifier is a prefix (possibly empty) and a stem: temp_users is
\* <<"temp_", "users">>, proposals is <<"", "proposals">>
TableRef(prefix, stem, in_with) == [name |-> <<prefix, stem>>, in_with |-> in_with]

Column(name, table) == [name |-> name, table |-> table]

Condition(column, value) == [column |-> column, value |-> value]

\* SELECT * FROM proposals
SelectAll ==
    [kind |-> "select", count |-> FALSE,
     tables |-> {TableRef("", "proposals", FALSE)}, ctes |-> {},
     columns |-> {}, where |-> <<>>, tail |-> <<"", 0>>,
     words |-> {}, comment |-> "none", union |-> "none", subselect |-> FALSE]

\* DROP TABLE proposals
DropTable ==
    [SelectAll EXCEPT !.kind = "drop", !.words = {"DROP"}]

\* the statements the completion service may write
Statements ==
    LET \* SELECT COUNT(*) FROM proposals WHERE type = 'TreasuryProposal'
        CountTreasury ==
          [SelectAll EXCEPT !.count = TRUE,
                            !.where = <<Condition("type", "'TreasuryProposal'")>>]
        \* SELECT id, title FROM proposals WHERE network = $1   (or @1)
        SelectByNetwork(p) ==
          [SelectAll EXCEPT !.columns = {Column("id", ""), Column("title", "")},
                            !.where = <<Condition("network", p)>>]
        \* SELECT * FROM users  /  SELECT * FROM temp_users
        SelectFrom(prefix, stem) ==
          [SelectAll EXCEPT !.tables = {TableRef(prefix, stem, FALSE)}]
        \* WITH <name> AS (SELECT id FROM <body>) SELECT id FROM <name>
        WithCte(prefix, stem, body) ==
          [SelectAll EXCEPT
             !.tables = {TableRef("", body, TRUE), TableRef(prefix, stem, FALSE)},
             !.ctes = {<<prefix, stem>>},
             !.columns = {Column("id", "")}]
        \* SELECT password FROM proposals  /  SELECT p.password FROM proposals AS p
        SelectColumn(name, table) ==
          [SelectAll EXCEPT !.columns = {Column(name, table)}]
        \* DELETE FROM proposals WHERE id IN (SELECT id FROM proposals)
        DeleteWhere ==
          [SelectAll EXCEPT !.kind = "delete", !.words = {"DELETE"},
                            !.subselect = TRUE, !.columns = {Column("id", "")}]
        \* SELECT * FROM proposals WHERE title = 'drop'
        SelectTitleDrop ==
          [SelectAll EXCEPT !.where = <<Condition("title", "'drop'")>>,
                            !.words = {"DROP"}]
        \* WITH cte_gone AS (DELETE FROM proposals RETURNING id)
        \* SELECT id FROM cte_gone
        WithDelete ==
          [WithCte("cte_", "gone", "proposals") EXCEPT !.words = {"DELETE"}]
        \* SELECT * FROM proposals -- c  /  /* c */  /  a comment the
        \* tokenizer attaches to no node
        Commented(c) == [SelectAll EXCEPT !.comment = c]
        \* SELECT id FROM proposals UNION SELECT id FROM proposals
        TopUnion ==
          [SelectAll EXCEPT !.kind = "union", !.columns = {Column("id", "")}]
        \* SELECT * FROM (SELECT id FROM proposals UNION
        \* SELECT id FROM proposals) AS t
        SubqueryUnion ==
          [SelectAll EXCEPT !.union = "subquery", !.subselect = TRUE,
                            !.columns = {Column("id", "")}]
        \* WITH cte_all AS (SELECT id FROM proposals UNION
        \* SELECT id FROM proposals) SELECT id FROM cte_all
        CteUnion ==
          [WithCte("cte_", "all", "proposals") EXCEPT !.union = "cte"]
        \* a text the parser cannot parse
        Unparsable == [SelectAll EXCEPT !.kind = "garbage", !.tables = {}]
    IN  {SelectAll, CountTreasury, SelectByNetwork("$1"), SelectByNetwork("@1"),
         SelectFrom("", "users"), SelectFrom("temp_", "users"),
         WithCte("", "latest", "proposals"), WithCte("cte_", "latest", "proposals"),
         WithCte("cte_", "latest", "users"),
         SelectColumn("password", ""), SelectColumn("password", "p"),
         DropTable, DeleteWhere, SelectTitleDrop, WithDelete,
         Commented("--"), Commented("/* */"), Commented("unattached"),
         TopUnion, SubqueryUnion, CteUnion, Unparsable}

SqlTexts == UNION {[1..n -> Statements] : n \in 1..MaxStatements}

\* what the completion service answers: a JSON object with an SQL string, a
\* JSON value of another shape, text that is not JSON, or an API failure
LlmReplies ==
    {[kind |-> "json", plan |-> "llm plan", sql |-> t] : t \in SqlTexts}
    \cup {[kind |-> k, plan |-> "", sql |-> <<>>] :
             k \in {"invalid_structure", "sql_not_string", "JSONDecodeError",
                    "Exception"}}

\* user questions of /nlsql, as keyword sets
UserQueries ==
    {{},
     {"how many", "proposals", "proposal"},
     {"how many", "proposals", "proposal", "treasury", "kusama"},
     {"show some", "show", "recent", "august", "2025", "digit"},
     {"show", "treasury", "2025-08", "2025", "digit"},
     {"how many", "proposals", "proposal", "treasury", "kusama", "august",
      "2025", "digit"},
     {"show", "recent", "treasury", "kusama", "2025-08", "2025", "digit"}}

_extract_date_filter(q) ==
    IF (AnyIn(q, {"august", "aug"}) /\ "2025" \in q) \/ "2025-08" \in q
    THEN <<Condition("created_at", ">= '2025-08-01'"),
           Condition("created_at", "< '2025-09-01'")>>
    ELSE <<>>

_extract_network_filter(q) ==
    IF AnyIn(q, {"polkadot", "dot"}) THEN <<Condition("network", "'polkadot'")>>
    ELSE IF AnyIn(q, {"kusama", "ksm"}) THEN <<Condition("network", "'kusama'")>>
    ELSE IF "substrate" \in q THEN <<Condition("network", "'substrate'")>>
    ELSE IF "westend" \in q THEN <<Condition("network", "'westend'")>>
    ELSE IF "rococo" \in q THEN <<Condition("network", "'rococo'")>>
    ELSE <<>>

\* mutant of _generate_fallback_sql: the treasury filter is written on a
\* column proposal_type
_generate_fallback_sql_proposal_type(q) ==
    LET where_conditions == _extract_network_filter(q) \o _extract_date_filter(q)
        treasury == <<Condition("proposal_type", "'TreasuryProposal'")>>
        stmt ==
          IF "how many" \in q /\ "proposals" \in q
          THEN IF "treasury" \in q
               THEN [SelectAll EXCEPT !.count = TRUE,
                                      !.where = treasury \o where_conditions]
               ELSE [SelectAll EXCEPT !.count = TRUE, !.where = where_conditions]
          ELSE IF "show" \in q /\ "recent" \in q
          THEN [SelectAll EXCEPT !.where = where_conditions,
                                 !.tail = <<"created_at DESC", 5>>]
          ELSE IF "show" \in q /\ "treasury" \in q
          THEN [SelectAll EXCEPT !.where = treasury \o where_conditions,
                                 !.tail = <<"", 5>>]
          ELSE [SelectAll EXCEPT !.where = where_conditions, !.tail = <<"", 5>>]
    IN  [plan |-> "fallback plan", sql |-> <<stmt>>, params |-> <<>>]

_generate_fallback_sql(q) ==
    LET where_conditions == _extract_network_filter(q) \o _extract_date_filter(q)
        treasury == <<Condition("type", "'TreasuryProposal'")>>
        stmt ==
          IF "how many" \in q /\ "proposals" \in q
          THEN IF "treasury" \in q
               THEN [SelectAll EXCEPT !.count = TRUE,
                                      !.where = treasury \o where_conditions]
               ELSE [SelectAll EXCEPT !.count = TRUE, !.where = where_conditions]
          ELSE IF "show" \in q /\ "recent" \in q
          THEN [SelectAll EXCEPT !.where = where_conditions,
                                 !.tail = <<"created_at DESC", 5>>]
          ELSE IF "show" \in q /\ "treasury" \in q
          THEN [SelectAll EXCEPT !.where = treasury \o where_conditions,
                                 !.tail = <<"", 5>>]
          ELSE [SelectAll EXCEPT !.where = where_conditions, !.tail = <<"", 5>>]
    IN  [plan |-> "fallback plan", sql |-> <<stmt>>, params |-> <<>>]

\* returns result unchanged: each detected keyword is only logged
_validate_sql_security_simple(result) == result

\* 'SELECT' in stmt.upper() is MentionsSelect; of the keywords 'WITH ', 'CTE',
\* 'UNION', 'array_agg', 'row_to_json' searched in sql.upper() the two
\* lower-case ones never occur
_fix_llm_query_issues(result, q) ==
    LET sql == result.sql
        MentionsSelect(st) == st.kind \in {"select", "union"} \/ st.subselect
        select_statements == SelectSeq(sql, MentionsSelect)
        fixed == IF Len(sql) > 1 /\ select_statements # <<>>
                 THEN [result EXCEPT !.sql = <<select_statements[1]>>]
                 ELSE result
        complex == \E i \in 1..Len(sql) :
                      \/ sql[i].ctes # {}
                      \/ \E t \in sql[i].tables : t.name[1] = "cte_"
                      \/ sql[i].kind = "union"
                      \/ sql[i].union # "none"
    IN  IF "how many" \in q /\ complex
        THEN _generate_fallback_sql(q)
        ELSE IF AnyIn(q, {"show examples", "show some", "name a few"}) /\ complex
        THEN _generate_fallback_sql(q)
        ELSE fixed

_generate_sql_with_llm(q, llm) ==
    IF llm.kind = "json"
    THEN _fix_llm_query_issues(
             _validate_sql_security_simple(
                 [plan |-> llm.plan, sql |-> llm.sql, params |-> <<>>]), q)
    ELSE _generate_fallback_sql(q)

\* the tree of the first statement; a syntax error anywhere in the text
\* fails the parse; a comment the tokenizer cannot attach to a node is gone
parse_one(sql) ==
    IF sql = <<>> \/ \E i \in 1..Len(sql) : sql[i].kind = "garbage"
    THEN [kind |-> "ParseError"]
    ELSE [sql[1] EXCEPT !.comment = IF @ = "unattached" THEN "none" ELSE @]

\* str(parsed): every comment of the tree is printed as a block comment
Printed(parsed) ==
    [parsed EXCEPT !.comment = IF @ = "none" THEN "none" ELSE "/* */"]

\* the message of the SQLSecurityError it raises, or "ok"
_validate_tables_and_columns(parsed) ==
    LET IsAllowedTable(t) ==
          \/ t.name[1] \in cte_prefixes
          \/ (t.name[1] = "" /\ t.name[2] \in ALLOWED_TABLES)
          \/ t.in_with
        columns ==
          parsed.columns
          \cup {Column(parsed.where[i].column, "") : i \in 1..Len(parsed.where)}
        rejected ==
          {c \in columns : c.name \notin ALLOWED_COLUMNS \cup cte_column_names}
    IN  IF \E t \in parsed.tables : ~IsAllowedTable(t)
        THEN "Table not allowed"
        ELSE IF rejected = {} THEN "ok"
        ELSE IF \E c \in rejected : c.table # ""
        THEN "'str' object has no attribute 'name'"
        ELSE "Column not allowed"

\* mutant of _validate_sql_security: no dangerous-keyword scan
_validate_sql_security_no_keywords(parsed) ==
    IF parsed.kind # "select" THEN "Only SELECT queries are allowed"
    ELSE IF Printed(parsed).comment # "none" THEN "Comments not allowed in SQL"
    ELSE _validate_tables_and_columns(parsed)

_validate_sql_security(parsed) ==
    IF parsed.kind # "select" THEN "Only SELECT queries are allowed"
    ELSE IF Printed(parsed).words \cap dangerous_keywords # {}
    THEN "Dangerous SQL keyword not allowed"
    ELSE IF Printed(parsed).comment # "none" THEN "Comments not allowed in SQL"
    ELSE _validate_tables_and_columns(parsed)

_extract_parameters(sql) == <<>>

\* re.sub(r'@(\d+)', r'$\1', str(parsed))
_create_parameterized_sql(parsed) ==
    LET p == Printed(parsed)
    IN  [p EXCEPT !.where =
            [i \in 1..Len(p.where) |->
                IF p.where[i].value = "@1"
                THEN Condition(p.where[i].column, "$1") ELSE p.where[i]]]

SQLSecurityError(message) == [kind |-> "SQLSecurityError", message |-> message]

_validate_and_secure_sql(sql) ==
    LET parsed == parse_one(sql)
    IN  IF parsed.kind = "ParseError" THEN SQLSecurityError("SQL parse error")
        ELSE IF _validate_sql_security(parsed) # "ok"
        THEN SQLSecurityError(_validate_sql_security(parsed))
        ELSE [kind |-> "ok", sql |-> <<_create_parameterized_sql(parsed)>>,
              params |-> _extract_parameters(sql)]

plan_sql(q, llm) ==
    LET sql_result == _generate_sql_with_llm(q, llm)
        validated == _validate_and_secure_sql(sql_result.sql)
    IN  IF validated.kind = "ok"
        THEN [kind |-> "ok", plan |-> sql_result.plan, sql |-> validated.sql,
              params |-> validated.params]
        ELSE SQLSecurityError("Failed to generate secure SQL")

\* SELECT id, title, type, created_at FROM proposals{where}
\* ORDER BY created_at DESC LIMIT 5
examples_sql(q) ==
    <<[SelectAll EXCEPT
         !.columns = {Column("id", ""), Column("title", ""), Column("type", ""),
                      Column("created_at", "")},
         !.where = _extract_network_filter(q) \o _extract_date_filter(q),
         !.tail = <<"created_at DESC", 5>>]>>

\* "COUNT" in plan_result["sql"].upper()
IsCountSql(sql) == \E i \in 1..Len(sql) : sql[i].count

\* what the database answers to one fetch: a number of rows, or an error
DbReplies == {[ok |-> TRUE, rows |-> n] : n \in 0..MaxExamples}
             \cup {[ok |-> FALSE, rows |-> 0]}

NLSQLResponse(count, examples, plan, sql, error) ==
    [kind |-> "NLSQLResponse", count |-> count, examples |-> examples,
     plan |-> plan, sql |-> sql, error |-> error]

PlannerInit ==
    /\ endpoint = "/nlsql"
    /\ request \in {[user_query |-> q] : q \in UserQueries}
    /\ pc = "get_service"
    /\ nlsql = [llm |-> NotCalled, plan |-> NotCalled, executed |-> <<>>,
                result |-> NotCalled]
    /\ retrieval = NotCalled
    /\ executor = "unset"
    /\ state = InitialState(EmptyQuery)
    /\ nlsql_reply = NotCalled
    /\ search_reply = NotCalled
    /\ runs = [st \in Stages |-> 0]
    /\ clock = 0
    /\ raised = "none"
    /\ pending = <<>>
    /\ emitted = <<>>
    /\ out = <<>>
    /\ response = NoResponse
    /\ provider = NotCalled
    /\ app_db = NotCalled

\* get_nlsql_service() raises (the completion client cannot be constructed)
GetNlsqlServiceFails ==
    /\ endpoint = "/nlsql"
    /\ pc = "get_service"
    /\ response' = HTTPException("NLSQL processing failed: OpenAIError")
    /\ pc' = "closed"
    /\ UNCHANGED <<provider, app_db, nlsql, retrieval, endpoint, request, executor, state,
                   nlsql_reply, search_reply, runs, clock, raised, pending,
                   emitted, out>>

\* execute_nlsql: plan_sql, with the completion service's reply
PlanSql ==
    /\ endpoint = "/nlsql"
    /\ pc = "get_service"
    /\ \E llm \in LlmReplies :
          LET plan == plan_sql(request.user_query, llm)
          IN  /\ nlsql' = [nlsql EXCEPT
                              !.llm = llm, !.plan = plan,
                              !.result = IF plan.kind = "ok" THEN @
                                         ELSE SQLSecurityError("Failed to execute query")]
              /\ pc' = IF plan.kind = "ok" THEN "_execute_sql" ELSE "respond"
    /\ UNCHANGED <<provider, app_db, retrieval, endpoint, request, executor, state,
                   nlsql_reply, search_reply, runs, clock, raised, pending,
                   emitted, out, response>>

\* execute_nlsql: _execute_sql(plan_result["sql"], plan_result["params"])
ExecuteSql ==
    /\ pc = "_execute_sql"
    /\ \E db \in DbReplies :
          /\ nlsql' = [nlsql EXCEPT
                          !.executed = Append(@, nlsql.plan.sql),
                          !.result =
                              IF ~db.ok THEN SQLSecurityError("Failed to execute query")
                              ELSE IF IsCountSql(nlsql.plan.sql)
                              THEN [kind |-> "ok", count |-> db.rows, examples |-> 0]
                              ELSE [kind |-> "ok", count |-> db.rows, examples |-> db.rows]]
          /\ pc' = IF db.ok /\ IsCountSql(nlsql.plan.sql)
                   THEN "_get_examples_for_count_query" ELSE "respond"
    /\ UNCHANGED <<provider, app_db, retrieval, endpoint, request, executor, state,
                   nlsql_reply, search_reply, runs, clock, raised, pending,
                   emitted, out, response>>

\* _get_examples_for_count_query: a failure of its fetch yields no examples
GetExamples ==
    /\ pc = "_get_examples_for_count_query"
    /\ \E db \in DbReplies :
          nlsql' = [nlsql EXCEPT
                       !.executed = Append(@, examples_sql(request.user_query)),
                       !.result.examples = IF db.ok THEN db.rows ELSE 0]
    /\ pc' = "respond"
    /\ UNCHANGED <<provider, app_db, retrieval, endpoint, request, executor, state,
                   nlsql_reply, search_reply, runs, clock, raised, pending,
                   emitted, out, response>>

\* process_nlsql: the result, or the SQLSecurityError as an error field
NlsqlRespond ==
    /\ endpoint = "/nlsql"
    /\ pc = "respond"
    /\ response' =
          IF nlsql.result.kind = "ok"
          THEN NLSQLResponse(nlsql.result.count, nlsql.result.examples,
                             nlsql.plan.plan, nlsql.plan.sql, "")
          ELSE NLSQLResponse("null", "null", "", <<>>, "Security error")
    /\ pc' = "closed"
    /\ UNCHANGED <<provider, app_db, nlsql, retrieval, endpoint, request, executor, state,
                   nlsql_reply, search_reply, runs, clock, raised, pending,
                   emitted, out>>

PlannerNext ==
    \/ GetNlsqlServiceFails
    \/ PlanSql
    \/ ExecuteSql
    \/ GetExamples
    \/ NlsqlRespond

PlannerSpec == PlannerInit /\ [][PlannerNext]_vars

\* =================================================================
\* The router on its own, over a larger vocabulary
\* =================================================================
MaxRouterCues == 3

\* one or more keywords of every list of the router
RouterCues ==
    {"proposal", "proposal id", "digit", "give me the details",
     "how many", "highest", "show some", "recent", "2025", "YYYY-MM-DD",
     "kusama", "treasury", "motion", "find", "list", "search", "clarys"}

RouterQueries ==
    {q \in SUBSET RouterCues :
        /\ Cardinality(q) <= MaxRouterCues
        /\ \A c \in q : Implied(c) \subseteq q}

\* run_graph has obtained the service and is about to run the router
RouterInit ==
    /\ endpoint = "/query/stream-raw"
    /\ request \in {[body_ok |-> TRUE, query |-> v] :
                       v \in {TextQuery(q) : q \in RouterQueries} \cup {NonStringQuery}}
    /\ executor \in Executors
    /\ pc = "router"
    /\ state = InitialState(request.query)
    /\ nlsql_reply = NotCalled
    /\ search_reply = NotCalled
    /\ runs = [st \in Stages |-> 0]
    /\ clock = 0
    /\ raised = "none"
    /\ pending = <<>>
    /\ emitted = <<>>
    /\ out = <<>>
    /\ response = NoResponse
    /\ provider = NotCalled
    /\ app_db = NotCalled
    /\ nlsql = NotCalled
    /\ retrieval = NotCalled

RouterNext ==
    \/ RouterStep
    \/ RouterRaise

RouterSpec == RouterInit /\ [][RouterNext]_vars

\* =================================================================
\* Hybrid search (RetrievalService.search_proposals)
\* =================================================================
\* A document is its id.  A fused score is an exact multiple of
\* 1 / ScoreScale, where ScoreScale is a common multiple of the denominators
\* k + r + 1 of all ranks r that occur, so that sums and comparisons of
\* scores are those of the rationals.
MaxList == 3

DocIds == 1..3

RRF_K == 60

RerankLimit == 30

ScoreScale ==
    LET ProductTo[n \in 0..(MaxList + 1)] ==
          IF n = 0 THEN 1 ELSE (RRF_K + n) * ProductTo[n - 1]
    IN  ProductTo[MaxList + 1]

\* 1.0 / (k + i + 1) for the zero-based rank i, in units of 1 / ScoreScale
Contribution(k, i) == ScoreScale \div (k + i + 1)

RankedLists == UNION {[1..n -> DocIds] : n \in 0..MaxList}

\* what the two searches return (each has limit 50): any two short rankings,
\* or a lexical ranking of more documents than are reranked
SearchReturns ==
    (RankedLists \X RankedLists)
    \cup {<<[i \in 1..(RerankLimit + 1) |-> i], <<>>>>}

\* The loops of _fuse_with_rrf are written by their effect, so that a ranking
\* of more than RerankLimit documents is evaluated without deep recursion.
\*
\* for i, result in enumerate(results): scores[result['id']] = 1.0/(k+i+1)
\* leaves under each id the score of its last position
rank_scores(results, k) ==
    [id \in {results[i] : i \in 1..Len(results)} |->
        LET last == CHOOSE i \in 1..Len(results) :
                       /\ results[i] = id
                       /\ \A j \in (i + 1)..Len(results) : results[j] # id
        IN  Contribution(k, last - 1)]

\* all_proposals after the loops over lexical_results and vector_results; a
\* dict is the sequence of its keys in insertion order and the value of each
\* key.  A key is inserted where its id first occurs; the lexical loop
\* assigns rrf_score, the vector loop adds to it once per occurrence of the
\* id in vector_results.
all_proposals(lexical, vector, lexical_scores, vector_scores) ==
    LET both == lexical \o vector
        first == {i \in 1..Len(both) : \A j \in 1..(i - 1) : both[j] # both[i]}
        occurrences(id) == Cardinality({i \in 1..Len(vector) : vector[i] = id})
    IN  [keys |-> [n \in 1..Cardinality(first) |->
                      both[CHOOSE i \in first :
                              Cardinality({j \in first : j <= i}) = n]],
         rrf_score |->
            [id \in (DOMAIN lexical_scores) \cup (DOMAIN vector_scores) |->
                (IF id \in DOMAIN lexical_scores THEN lexical_scores[id] ELSE 0)
                + (IF id \in DOMAIN vector_scores
                   THEN occurrences(id) * vector_scores[id] ELSE 0)]]

\* list.sort(key=rrf_score, reverse=True), which is stable: a value comes
\* after every value with a higher score and after the earlier values with
\* its own score
sort_descending(values) ==
    LET place(i) ==
          Cardinality({j \in 1..Len(values) :
                          values[j].rrf_score > values[i].rrf_score})
          + Cardinality({j \in 1..i :
                            values[j].rrf_score = values[i].rrf_score})
    IN  [n \in 1..Len(values) |->
            values[CHOOSE i \in 1..Len(values) : place(i) = n]]

\* mutant of _fuse_with_rrf: the results of both lists are collected in a
\* list, not in a dict keyed by id
_fuse_with_rrf_list(lexical_results, vector_results, k) ==
    LET lexical_scores == rank_scores(lexical_results, k)
        vector_scores == rank_scores(vector_results, k)
        values ==
          [i \in 1..Len(lexical_results) |->
              [id |-> lexical_results[i],
               rrf_score |-> lexical_scores[lexical_results[i]]]]
          \o [i \in 1..Len(vector_results) |->
              [id |-> vector_results[i],
               rrf_score |-> vector_scores[vector_results[i]]]]
    IN  sort_descending(values)

\* mutant of _fuse_with_rrf: sorted without reverse=True
_fuse_with_rrf_ascending(lexical_results, vector_results, k) ==
    LET all == all_proposals(lexical_results, vector_results,
                             rank_scores(lexical_results, k),
                             rank_scores(vector_results, k))
        values == [i \in 1..Len(all.keys) |->
                     [id |-> all.keys[i], rrf_score |-> all.rrf_score[all.keys[i]]]]
        sorted == sort_descending(values)
    IN  [i \in 1..Len(sorted) |-> sorted[Len(sorted) + 1 - i]]

_fuse_with_rrf(lexical_results, vector_results, k) ==
    LET all == all_proposals(lexical_results, vector_results,
                             rank_scores(lexical_results, k),
                             rank_scores(vector_results, k))
        values == [i \in 1..Len(all.keys) |->
                     [id |-> all.keys[i], rrf_score |-> all.rrf_score[all.keys[i]]]]
    IN  sort_descending(values)

\* what the reranking service answers for n documents: the documents'
\* indices in its relevance order with their relevance scores (descending,
\* in units of 1 / ScoreScale), or a failure.  Every order is considered for
\* a short list, the reversed order for a long one.
CohereReplies(n) ==
    {[kind |-> "ok", order |-> p,
      relevance_score |-> [j \in 1..n |-> ScoreScale \div j]] :
        p \in IF n <= MaxList
              THEN {f \in [1..n -> 1..n] : \A i, j \in 1..n : f[i] = f[j] => i = j}
              ELSE {[j \in 1..n |-> n + 1 - j]}}
    \cup {[kind |-> "Exception", order |-> <<>>, relevance_score |-> <<>>]}

\* mutant of _rerank_with_cohere: a failed call yields no results
_rerank_with_cohere_empty(results, cohere_client, reply) ==
    IF ~cohere_client \/ results = <<>> THEN results
    ELSE IF reply.kind = "ok"
    THEN [j \in 1..Len(reply.order) |->
             [id |-> results[reply.order[j]].id,
              rrf_score |-> results[reply.order[j]].rrf_score,
              cohere_score |-> reply.relevance_score[j]]]
    ELSE <<>>

\* result = results[original_index].copy(); the relevance score is stored
\* under cohere_score, next to rrf_score
_rerank_with_cohere(results, cohere_client, reply) ==
    IF ~cohere_client \/ results = <<>> THEN results
    ELSE IF reply.kind = "ok"
    THEN [j \in 1..Len(reply.order) |->
             [id |-> results[reply.order[j]].id,
              rrf_score |-> results[reply.order[j]].rrf_score,
              cohere_score |-> reply.relevance_score[j]]]
    ELSE results

\* search_proposals, step 4: whether the reranking service is called
WillRerank(use_rerank, cohere_client, fused_results) ==
    use_rerank /\ cohere_client /\ Len(fused_results) > 0

final_results(fused_results, use_rerank, cohere_client, reply) ==
    IF WillRerank(use_rerank, cohere_client, fused_results)
    THEN LET rerank_limit == Min(RerankLimit, Len(fused_results))
         IN  _rerank_with_cohere(Take(fused_results, rerank_limit), cohere_client, reply)
             \o SubSeq(fused_results, rerank_limit + 1, Len(fused_results))
    ELSE fused_results

\* search_proposals, step 5: SearchResult(id, ..., score=rrf_score) of the
\* first top_k results
top_results(final, top_k) ==
    [i \in 1..Min(top_k, Len(final)) |->
        [id |-> final[i].id, score |-> final[i].rrf_score]]

SearchInit ==
    /\ endpoint = "/search"
    /\ request \in {[query |-> q, top_k |-> t, use_rerank |-> r] :
                       q \in {"text", ""}, t \in {1, MaxList, RerankLimit + 1},
                       r \in BOOLEAN}
    /\ pc = "search_proposals"
    /\ retrieval \in
          {[cohere_client |-> c, embedding |-> "not_called",
            lexical |-> <<>>, vector |-> <<>>,
            fused |-> <<>>, cohere |-> NotCalled, final |-> <<>>,
            results |-> <<>>, raised |-> "none"] : c \in BOOLEAN}
    /\ nlsql = NotCalled
    /\ executor = "unset"
    /\ state = InitialState(EmptyQuery)
    /\ nlsql_reply = NotCalled
    /\ search_reply = NotCalled
    /\ runs = [st \in Stages |-> 0]
    /\ clock = 0
    /\ raised = "none"
    /\ pending = <<>>
    /\ emitted = <<>>
    /\ out = <<>>
    /\ response = NoResponse
    /\ provider = NotCalled
    /\ app_db = NotCalled

\* if not query or not query.strip(): return []
SearchBlankQuery ==
    /\ pc = "search_proposals"
    /\ request.query = ""
    /\ retrieval' = [retrieval EXCEPT !.results = <<>>]
    /\ pc' = "returned"
    /\ UNCHANGED <<provider, app_db, nlsql, endpoint, request, executor, state, nlsql_reply,
                   search_reply, runs, clock, raised, pending, emitted, out,
                   response>>

\* what get_embedding returns: the provider's vector, or the zero vector
\* when the provider's call raised (the exception is caught there)
Embeddings == {"embedding", "zero_vector"}

\* one of the two database searches raises: the except branch returns []
SearchRaises ==
    /\ pc = "search_proposals"
    /\ request.query # ""
    /\ \E query_embedding \in Embeddings :
          retrieval' = [retrieval EXCEPT !.embedding = query_embedding,
                                        !.raised = "PostgresError",
                                        !.results = <<>>]
    /\ pc' = "returned"
    /\ UNCHANGED <<provider, app_db, nlsql, endpoint, request, executor, state, nlsql_reply,
                   search_reply, runs, clock, raised, pending, emitted, out,
                   response>>

\* steps 1 to 3: embedding, lexical and vector search, fusion.  The vector
\* search runs with whatever get_embedding returned; the distance of every
\* stored embedding to the zero vector is NaN, so its rows come in any order.
Fuse ==
    /\ pc = "search_proposals"
    /\ request.query # ""
    /\ \E query_embedding \in Embeddings, returned \in SearchReturns :
          LET lexical_results == returned[1]
              vector_results == returned[2]
              fused_results == _fuse_with_rrf(lexical_results, vector_results, RRF_K)
          IN  /\ retrieval' =
                     [retrieval EXCEPT
                         !.embedding = query_embedding,
                         !.lexical = lexical_results,
                         !.vector = vector_results,
                         !.fused = fused_results,
                         !.final =
                            IF WillRerank(request.use_rerank, retrieval.cohere_client,
                                          fused_results)
                            THEN @ ELSE fused_results]
              /\ pc' = IF WillRerank(request.use_rerank, retrieval.cohere_client,
                                     fused_results)
                       THEN "_rerank_with_cohere" ELSE "top_k"
    /\ UNCHANGED <<provider, app_db, nlsql, endpoint, request, executor, state, nlsql_reply,
                   search_reply, runs, clock, raised, pending, emitted, out,
                   response>>

\* step 4: the reranking service is called on the first RerankLimit results
Rerank ==
    /\ pc = "_rerank_with_cohere"
    /\ \E reply \in CohereReplies(Min(RerankLimit, Len(retrieval.fused))) :
          retrieval' =
              [retrieval EXCEPT
                  !.cohere = reply,
                  !.final = final_results(retrieval.fused, request.use_rerank,
                                          retrieval.cohere_client, reply)]
    /\ pc' = "top_k"
    /\ UNCHANGED <<provider, app_db, nlsql, endpoint, request, executor, state, nlsql_reply,
                   search_reply, runs, clock, raised, pending, emitted, out,
                   response>>

\* step 5: the first top_k results are returned
ReturnResults ==
    /\ pc = "top_k"
    /\ retrieval' = [retrieval EXCEPT !.results = top_results(retrieval.final, request.top_k)]
    /\ pc' = "returned"
    /\ UNCHANGED <<provider, app_db, nlsql, endpoint, request, executor, state, nlsql_reply,
                   search_reply, runs, clock, raised, pending, emitted, out,
                   response>>

SearchNext ==
    \/ SearchBlankQuery
    \/ SearchRaises
    \/ Fuse
    \/ Rerank
    \/ ReturnResults

SearchSpec == SearchInit /\ [][SearchNext]_vars

\* =================================================================
\* The rerank stage called on a given state
\* =================================================================
\* _rerank_node is called on states built by the caller, as its unit tests
\* do: sql_result unset, a result of execute_nlsql or the error result of
\* the SQL stage, with or without retrieval hits, after the stages recorded
\* in processing_times.
RerankInit ==
    /\ endpoint = "/query"
    /\ request = [body_ok |-> TRUE, query |-> TextQuery({})]
    /\ executor \in Executors
    /\ pc = "rerank_node"
    /\ state \in
          {[InitialState(request.query) EXCEPT
                !.route_decision = route,
                !.sql_result = sql_result,
                !.retrieval_hits = Hits(ss),
                !.processing_times = times] :
              route \in {"sql_agent", "retrieval_agent"},
              sql_result \in
                  {None, ErrorResult}
                  \cup {[kind |-> "dict", error |-> FALSE, count |-> Len(ds),
                         examples |-> Rows(ds)] : ds \in RowSeqs({"text"})},
              ss \in UNION {[1..n -> Scores] : n \in 0..MaxExamples},
              times \in {EmptyDict, Put(EmptyDict, "router", 1)}}
    /\ nlsql_reply = NotCalled
    /\ search_reply = NotCalled
    /\ runs = [st \in Stages |-> 0]
    /\ clock = 1
    /\ raised = "none"
    /\ pending = <<>>
    /\ emitted = <<>>
    /\ out = <<>>
    /\ response = NoResponse
    /\ provider = NotCalled
    /\ app_db = NotCalled
    /\ nlsql = NotCalled
    /\ retrieval = NotCalled

RerankSpec == RerankInit /\ [][RerankStep]_vars

\* =================================================================
\* app/db.py: concurrent first calls of get_pool
\* =================================================================
\* Coroutines that call get_pool while the module's global pool is unset.
\* asyncio runs one coroutine at a time and switches only at an await, so
\* get_pool is two steps: the test of the global up to the await of
\* asyncpg.create_pool, and the resumption that assigns the global and
\* returns it.  app_db.pool is the global (0 is None), app_db.pools the pool
\* objects asyncpg has created, app_db.tasks each caller's position and the
\* value it got back.
MaxTasks == 4

Tasks == 1..MaxTasks

PoolInit ==
    /\ app_db = [pool |-> 0, pools |-> {},
             tasks |-> [t \in Tasks |-> [pc |-> "get_pool", pool |-> 0]]]
    /\ endpoint = "none"
    /\ request = [body_ok |-> TRUE, query |-> TextQuery({})]
    /\ executor = "graph"
    /\ pc = "get_pool"
    /\ state = InitialState(request.query)
    /\ nlsql_reply = NotCalled
    /\ search_reply = NotCalled
    /\ runs = [st \in Stages |-> 0]
    /\ clock = 1
    /\ raised = "none"
    /\ pending = <<>>
    /\ emitted = <<>>
    /\ out = <<>>
    /\ response = NoResponse
    /\ provider = NotCalled
    /\ nlsql = NotCalled
    /\ retrieval = NotCalled

\* `if pool is None:` up to `await asyncpg.create_pool(...)`, or
\* `return pool` when the global is already set.
get_pool(t) ==
    /\ app_db.tasks[t].pc = "get_pool"
    /\ app_db' = [app_db EXCEPT
                !.tasks[t] =
                    IF app_db.pool = 0
                    THEN [pc |-> "create_pool", pool |-> 0]
                    ELSE [pc |-> "returned", pool |-> app_db.pool]]
    /\ UNCHANGED <<provider, endpoint, request, executor, pc, state,
                   nlsql_reply, search_reply, runs, clock, raised, pending,
                   emitted, out, response, nlsql, retrieval>>

\* asyncpg.create_pool completes: `pool = ...` rebinds the global to the
\* new object and `return pool` hands that object to this caller.
create_pool_returns(t) ==
    /\ app_db.tasks[t].pc = "create_pool"
    /\ LET created == Cardinality(app_db.pools) + 1
       IN  app_db' = [app_db EXCEPT
                    !.pool = created,
                    !.pools = @ \cup {created},
                    !.tasks[t] = [pc |-> "returned", pool |-> created]]
    /\ UNCHANGED <<provider, endpoint, request, executor, pc, state,
                   nlsql_reply, search_reply, runs, clock, raised, pending,
                   emitted, out, response, nlsql, retrieval>>

\* asyncpg.create_pool raises: the error is logged and re-raised, the
\* global is left as it was.
create_pool_raises(t) ==
    /\ app_db.tasks[t].pc = "create_pool"
    /\ app_db' = [app_db EXCEPT !.tasks[t] = [pc |-> "raised", pool |-> 0]]
    /\ UNCHANGED <<provider, endpoint, request, executor, pc, state,
                   nlsql_reply, search_reply, runs, clock, raised, pending,
                   emitted, out, response, nlsql, retrieval>>

PoolNext ==
    \E t \in Tasks :
        \/ get_pool(t)
        \/ create_pool_returns(t)
        \/ create_pool_raises(t)

PoolSpec == PoolInit /\ [][PoolNext]_vars

\* =================================================================
\* app/services/etl.py: OpenAIEmbeddingProvider._rate_limit under
\* concurrent get_embedding callers
\* =================================================================
\* get_retrieval_service keeps one RetrievalService, so every request
\* shares one OpenAIEmbeddingProvider.  asyncio switches coroutines only at
\* an await: _rate_limit runs from its call to the first asyncio.sleep it
\* reaches, and from each wake-up to the next sleep or to its end.  Time
\* is counted in ticks of min_interval (60.0 / 3000 s = 20 ms).
requests_per_minute == 3000

tokens_per_minute == 1000000

Minute == 3000

min_interval == Minute \div requests_per_minute

MaxCallers == 3

MaxCalls == 4

\* three minutes, in ticks
MaxTime == 9000

Callers == 1..MaxCallers

\* provider p after caller c has run _rate_limit from the program point
\* `from`: its call, or the wake-up from one of the three sleeps
_rate_limit(p, c, from) ==
    LET k == p.callers[c]
        reset(q) == [q EXCEPT !.request_count = 0, !.token_count = 0,
                              !.last_request_time = q.time]
        sleep(q, at, seconds) ==
            [q EXCEPT !.callers[c].pc = at,
                      !.callers[c].wake = q.time + seconds]
        count(q) ==
            [q EXCEPT !.request_count = @ + 1,
                      !.token_count = @ + k.tokens,
                      !.callers[c] = [pc |-> "idle", current_time |-> 0,
                                      tokens |-> 0, wake |-> 0]]
        interval(q) ==
            LET time_since_last == k.current_time - q.last_request_time
            IN  IF time_since_last < min_interval
                THEN sleep(q, "sleep_interval", min_interval - time_since_last)
                ELSE count(q)
        tokens(q) ==
            LET sleep_time == Minute - (k.current_time - q.last_request_time)
            IN  IF q.token_count + k.tokens >= tokens_per_minute
                   /\ sleep_time > 0
                THEN sleep(q, "sleep_tokens", sleep_time)
                ELSE interval(q)
        requests(q) ==
            LET sleep_time == Minute - (k.current_time - q.last_request_time)
            IN  IF q.request_count >= requests_per_minute /\ sleep_time > 0
                THEN sleep(q, "sleep_requests", sleep_time)
                ELSE tokens(q)
    IN  CASE from = "call" ->
                requests(IF k.current_time - p.last_request_time >= Minute
                         THEN reset(p) ELSE p)
          [] from = "sleep_requests" -> tokens(reset(p))
          [] from = "sleep_tokens" -> interval(reset(p))
          [] from = "sleep_interval" -> count(p)

\* OpenAIEmbeddingProvider.__init__, and the first call one minute or more
\* after the epoch; calls counts the calls of get_embedding made so far
RateInit ==
    /\ provider = [request_count |-> 0, token_count |-> 0,
                   last_request_time |-> 0, time |-> Minute, calls |-> 0,
                   callers |-> [c \in Callers |->
                                   [pc |-> "idle", current_time |-> 0,
                                    tokens |-> 0, wake |-> 0]]]
    /\ endpoint = "none"
    /\ request = [body_ok |-> TRUE, query |-> TextQuery({})]
    /\ executor = "graph"
    /\ pc = "get_embedding"
    /\ state = InitialState(request.query)
    /\ nlsql_reply = NotCalled
    /\ search_reply = NotCalled
    /\ runs = [st \in Stages |-> 0]
    /\ clock = 1
    /\ raised = "none"
    /\ pending = <<>>
    /\ emitted = <<>>
    /\ out = <<>>
    /\ response = NoResponse
    /\ app_db = NotCalled
    /\ nlsql = NotCalled
    /\ retrieval = NotCalled

\* get_embedding: `await self._rate_limit(int(estimated_tokens))`, which
\* reads time.time() first; estimated_tokens is int(len(text.split()) * 1.3)
\* of a short and of a very long text
get_embedding(c) ==
    /\ provider.callers[c].pc = "idle"
    /\ provider.calls < MaxCalls
    /\ \E estimated_tokens \in {1, 600000} :
          provider' =
              _rate_limit([provider EXCEPT
                              !.calls = @ + 1,
                              !.callers[c] =
                                  [pc |-> "call",
                                   current_time |-> provider.time,
                                   tokens |-> estimated_tokens,
                                   wake |-> 0]],
                          c, "call")
    /\ UNCHANGED <<app_db, endpoint, request, executor, pc, state,
                   nlsql_reply, search_reply, runs, clock, raised, pending,
                   emitted, out, response, nlsql, retrieval>>

\* asyncio.sleep returns in a caller whose sleep is over
wake_up(c) ==
    /\ provider.callers[c].pc \in
          {"sleep_requests", "sleep_tokens", "sleep_interval"}
    /\ provider.callers[c].wake <= provider.time
    /\ provider' = _rate_limit(provider, c, provider.callers[c].pc)
    /\ UNCHANGED <<app_db, endpoint, request, executor, pc, state,
                   nlsql_reply, search_reply, runs, clock, raised, pending,
                   emitted, out, response, nlsql, retrieval>>

\* time passes, to the next wake-up or by ten seconds; no sleeper oversleeps
time_passes ==
    /\ \E later \in {provider.time + Minute \div 6}
                    \cup {provider.callers[c].wake : c \in Callers} :
          /\ later > provider.time
          /\ later <= MaxTime
          /\ \A c \in Callers :
                provider.callers[c].pc # "idle"
                    => later <= provider.callers[c].wake
          /\ provider' = [provider EXCEPT !.time = later]
    /\ UNCHANGED <<app_db, endpoint, request, executor, pc, state,
                   nlsql_reply, search_reply, runs, clock, raised, pending,
                   emitted, out, response, nlsql, retrieval>>

RateNext ==
    \/ \E c \in Callers : get_embedding(c) \/ wake_up(c)
    \/ time_passes

RateSpec == RateInit /\ [][RateNext]_vars

\* =================================================================
\* Properties
\* =================================================================
StagesOf(events) == [i \in 1..Len(events) |-> events[i].stage]

HasStage(events, stage) == \E i \in 1..Len(events) : events[i].stage = stage

CountStage(events, stage) ==
    Cardinality({i \in 1..Len(events) : events[i].stage = stage})

\* run_graph was started and its consumer has finished
RunEnded == pc = "closed" /\ runs["router"] > 0

\* router_decision, the branch event of the route, final_answer
BaseStages(route) ==
    <<"router_decision">>
    \o (IF route = "sql_agent" THEN <<"sql_result">>
        ELSE IF route = "retrieval_agent" THEN <<"retrieval_hits">>
        ELSE <<>>)
    \o <<"final_answer">>

IsStream == endpoint \in StreamEndpoints

LineEvents(lines) == [i \in 1..Len(lines) |-> lines[i].event]

IsErrorLine(l) == l # DoneLine /\ l.event.stage = "error"

\* C2: a request's event stream holds at most one final_answer, and an
\* error event is the last stage event: the next line is the [DONE] marker
\* and that marker ends the stream.
C2_ErrorIsLast ==
    IsStream =>
        /\ CountStage(LineEvents(out), "final_answer") <= 1
        /\ \A i \in 1..Len(out) :
              IsErrorLine(out[i]) =>
                  /\ i < Len(out) => (out[i + 1] = DoneLine /\ i + 1 = Len(out))
                  /\ pc = "closed" => i < Len(out)

C2_Witness ==
    /\ IsStream
    /\ pc = "closed"
    /\ raised # "none"
    /\ \E i \in 1..Len(out) : IsErrorLine(out[i])

\* C3: when a stage raises, run_graph emits exactly one error event with the
\* exception's message and the generic message, no stage event follows it,
\* and no stage runs more than once for the request.
C3_SingleError ==
    (raised # "none") =>
        /\ \A st \in Stages : runs[st] <= 1
        /\ CountStage(emitted, "error") + CountStage(pending, "error") = 1
        /\ \A i \in 1..Len(emitted) :
              emitted[i].stage = "error" =>
                  /\ i = Len(emitted)
                  /\ pending = <<>>
                  /\ emitted[i].payload =
                         [error |-> raised, message |-> "Failed to process query"]

C3_Witness ==
    /\ raised = "TypeError"
    /\ pc = "closed"
    /\ CountStage(emitted, "error") = 1
    /\ runs["composer"] = 1

\* the whole workflow under one executor, from `stage` on, with the service
\* replies of this request: the final state, or the state at the raise
RECURSIVE RunWorkflow(_, _, _, _)
RunWorkflow(exec, stage, s, t) ==
    IF stage = "END" THEN [ok |-> TRUE, state |-> s]
    ELSE IF StageRaises(stage, s) THEN [ok |-> FALSE, state |-> s]
    ELSE LET s2 == ApplyNode(stage, s, nlsql_reply, search_reply, t + 1)
         IN  RunWorkflow(exec, NextStage(exec, stage, s2), s2, t + 1)

SameState(a, b) ==
    /\ a.query = b.query
    /\ a.route_decision = b.route_decision
    /\ a.sql_query = b.sql_query
    /\ a.sql_result = b.sql_result
    /\ a.retrieval_hits = b.retrieval_hits
    /\ a.reranked_results = b.reranked_results
    /\ a.final_answer = b.final_answer
    /\ a.metadata = b.metadata
    /\ DOMAIN a.processing_times = DOMAIN b.processing_times

WorkflowReturned == pc \in {"yield", "closed"} /\ runs["router"] > 0 /\ raised = "none"

\* the state this request's executor produced is the one RunWorkflow computes
ExecutorAgreesWithRunWorkflow ==
    WorkflowReturned =>
        state = RunWorkflow(executor, "router", InitialState(request.query), 0).state

\* C4 as stated: on every route the graph executor and the sequential
\* executor, run on the same initial state with the same stage results, end
\* in the same state: every field equal, same keys in processing_times and
\* metadata.
C4_AsStated ==
    WorkflowReturned =>
        LET g == RunWorkflow("graph", "router", InitialState(request.query), 0)
            f == RunWorkflow("fallback", "router", InitialState(request.query), 0)
        IN  g.ok /\ f.ok /\ SameState(g.state, f.state)

\* C5: a SQLSecurityError of the SQL stage does not propagate: no error
\* event, sql_result has count 0 and no examples, the sql_result event
\* reports the same, and the answer is the no-proposals-found message.
C5_SecurityErrorDegrades ==
    (nlsql_reply.kind = "SQLSecurityError" /\ pc = "closed") =>
        LET q == FirstIndex(emitted, "sql_result")
            f == FirstIndex(emitted, "final_answer")
        IN  /\ raised = "none"
            /\ ~HasStage(emitted, "error")
            /\ state.sql_result.kind = "dict"
            /\ state.sql_result.count = 0
            /\ state.sql_result.examples = <<>>
            /\ q > 0
            /\ emitted[q].payload.count = 0
            /\ emitted[q].payload.examples = <<>>
            /\ f > 0
            /\ emitted[f].payload.answer =
                   <<"No proposals found matching your criteria.", 0, <<>>>>

C5_Witness ==
    /\ nlsql_reply.kind = "SQLSecurityError"
    /\ pc = "closed"
    /\ HasStage(emitted, "final_answer")

\* C6 as stated: when execute_nlsql raises an exception that is not a
\* SQLSecurityError, the event stream contains an error event carrying the
\* exception's message.
C6_AsStated ==
    (nlsql_reply.kind = "Exception" /\ pc = "closed") =>
        \E i \in 1..Len(emitted) :
            /\ emitted[i].stage = "error"
            /\ emitted[i].payload.error = "Exception"

\* C7 as stated: when the pipeline ends in an error event, POST /query
\* answers with an explicit error payload, never with a success body that
\* holds a placeholder answer.
C7_AsStated ==
    (endpoint = "/query" /\ pc = "closed" /\ HasStage(emitted, "error")) =>
        /\ response.kind = "HTTPException"
        /\ response.status >= 400

DoneCount == Cardinality({i \in 1..Len(out) : out[i] = DoneLine})

DoneIsLast == \A i \in 1..Len(out) : out[i] = DoneLine => i = Len(out)

StreamEnded == pc = "closed" /\ DoneCount = 1 /\ out[Len(out)] = DoneLine

\* C8: every stream of /query/stream and /query/stream-raw terminates, and
\* the line 'data: [DONE]' is written exactly once, as the last line
\* (success, pipeline error, missing query).
C8_DoneOnceAndLast ==
    /\ [](IsStream => (DoneCount <= 1 /\ DoneIsLast /\ (pc = "closed" => StreamEnded)))
    /\ (IsStream ~> StreamEnded)

C8_Witness ==
    /\ IsStream
    /\ StreamEnded
    /\ HasStage(emitted, "final_answer")

\* the k best-scored hits of h: res holds Min(k, Len(h)) hits of h and no
\* hit left out has a higher score than a hit taken
TopByScore(h, res, k) ==
    /\ Len(res) = Min(k, Len(h))
    /\ \E pos \in [1..Len(res) -> 1..Len(h)] :
          /\ \A i, j \in 1..Len(res) : i # j => pos[i] # pos[j]
          /\ \A i \in 1..Len(res) : res[i] = h[pos[i]]
          /\ \A x \in 1..Len(h) :
                (\A i \in 1..Len(res) : pos[i] # x) =>
                    \A i \in 1..Len(res) : h[x].score <= res[i].score

ClaimedDisplay(h, res) ==
    LET above == SelectSeq(h, IsRelevant)
    IN  /\ IF above # <<>> THEN res = Take(above, DisplayLimit)
           ELSE TopByScore(h, res, FallbackDisplay)
        /\ Len(res) <= DisplayLimit
        /\ (h # <<>> => res # <<>>)

\* C9 as stated: the display filter (retrieval_hits event and composer)
\* returns the hits scoring at least 0.015, at most 5 of them, or, when no
\* hit reaches 0.015, the top 2 hits by score; never more than 5, never
\* empty for a non-empty input.
C9_AsStated ==
    /\ \A i \in 1..Len(emitted) :
          emitted[i].stage = "retrieval_hits" =>
              ClaimedDisplay(state.retrieval_hits, emitted[i].payload.hits)
    /\ (state.route_decision = "retrieval_agent" /\ runs["composer"] = 1
        /\ state.reranked_results # <<>>) =>
              ClaimedDisplay(state.reranked_results, state.proposals_for_descriptions)

\* C10: a proposal_descriptions event occurs only on the retrieval_agent
\* route, and its proposals are the hits of the retrieval_hits event emitted
\* earlier in the same stream, in the same order.
C10_DescriptionsMatchHits ==
    \A i \in 1..Len(emitted) :
        emitted[i].stage = "proposal_descriptions" =>
            /\ state.route_decision = "retrieval_agent"
            /\ emitted[1].payload.decision = "retrieval_agent"
            /\ \E j \in 1..(i - 1) :
                  /\ emitted[j].stage = "retrieval_hits"
                  /\ emitted[j].payload.hits = emitted[i].payload.proposals

C10_Witness ==
    \E i \in 1..Len(emitted) :
        /\ emitted[i].stage = "proposal_descriptions"
        /\ Len(emitted[i].payload.proposals) = DisplayLimit
        /\ Len(state.retrieval_hits) > DisplayLimit

\* =================================================================
\* Properties of the NL-to-SQL planner
\* =================================================================
\* plan_sql has returned or raised for this request
Planned == nlsql.plan # NotCalled

\* the completion service answered with one SQL statement
SingleCandidate == Planned /\ nlsql.llm.kind = "json" /\ Len(nlsql.llm.sql) = 1

PlanRejected == nlsql.plan.kind = "SQLSecurityError"

\* a table other than the two allowed ones that the statement's own WITH
\* clause does not define
ReferencesForbiddenTable(st) ==
    \E t \in st.tables :
        /\ ~(t.name[1] = "" /\ t.name[2] \in ALLOWED_TABLES)
        /\ t.name \notin st.ctes

\* C11 as stated: for every SQL candidate that references a table other
\* than proposals or proposals_embeddings which its own WITH clause does not
\* define (a reserved name prefix alone does not make a CTE alias), plan_sql
\* fails with SQLSecurityError.
C11_AsStated ==
    (SingleCandidate /\ ReferencesForbiddenTable(nlsql.llm.sql[1])) => PlanRejected

\* DROP or DELETE, a second statement, or a comment
Offending(sql) ==
    \/ Len(sql) > 1
    \/ \E i \in 1..Len(sql) :
          \/ sql[i].kind \in {"drop", "delete"}
          \/ sql[i].words \cap {"DROP", "DELETE"} # {}
          \/ sql[i].comment # "none"

\* C12: for every candidate of the completion service that contains DROP,
\* DELETE, a second ';'-separated statement or a comment, plan_sql raises
\* SQLSecurityError or returns SQL without that fragment; no SQL text handed
\* to _execute_sql contains such a fragment.
C12_NoOffendingFragment ==
    /\ (Planned /\ ~PlanRejected) => ~Offending(nlsql.plan.sql)
    /\ \A i \in 1..Len(nlsql.executed) : ~Offending(nlsql.executed[i])

C12_Witness ==
    /\ nlsql.llm.kind = "json"
    /\ Len(nlsql.llm.sql) > 1
    /\ nlsql.llm.sql[1].comment = "unattached"
    /\ Len(nlsql.executed) = 1
    /\ ~Offending(nlsql.executed[1])

\* SELECT * FROM proposals; DROP TABLE proposals;
InjectionCandidate == <<SelectAll, DropTable>>

\* C13 as stated: the candidate 'SELECT * FROM proposals; DROP TABLE
\* proposals;' is rejected: plan_sql raises SQLSecurityError, no statement is
\* executed, and /nlsql answers with a response whose error field is set.
C13_AsStated ==
    (nlsql.llm.kind = "json" /\ nlsql.llm.sql = InjectionCandidate /\ pc = "closed") =>
        /\ PlanRejected
        /\ nlsql.executed = <<>>
        /\ response.kind = "NLSQLResponse"
        /\ response.error # ""

UnionOutsideCte(st) == st.kind = "union" \/ st.union = "subquery"

\* C14 as stated: every candidate that contains UNION, as the top-level set
\* operation or nested in a subquery of a SELECT, is rejected by plan_sql
\* with SQLSecurityError, unless the UNION sits in a CTE.
C14_AsStated ==
    (SingleCandidate /\ UnionOutsideCte(nlsql.llm.sql[1])) => PlanRejected

EmbedsLiterals(st) == \E i \in 1..Len(st.where) : st.where[i].value \notin {"$1", "@1"}

\* C15 as stated: plan_sql rejects with SQLSecurityError every candidate
\* whose predicates embed literal values instead of positional parameters,
\* and returns only parameterized statements.
C15_AsStated ==
    /\ (SingleCandidate /\ EmbedsLiterals(nlsql.llm.sql[1])) => PlanRejected
    /\ (Planned /\ ~PlanRejected) => ~EmbedsLiterals(nlsql.plan.sql[1])

ConditionsOf(st) == {st.where[i] : i \in 1..Len(st.where)}

\* C27 as stated (its filter part): whenever execute_nlsql executes a COUNT
\* statement, the examples query that accompanies it applies the filters of
\* the COUNT statement (network, date range, proposal type), ordered by
\* created_at descending and limited to 5.
C27_AsStated ==
    Len(nlsql.executed) = 2 =>
        LET counted == nlsql.executed[1][1]
            examples == nlsql.executed[2][1]
        IN  /\ ConditionsOf(examples) = ConditionsOf(counted)
            /\ examples.tail = <<"created_at DESC", 5>>

\* the completion service failed or answered no usable JSON: the SQL is the
\* deterministic fallback's
FallbackPlanned ==
    /\ Planned
    /\ nlsql.llm.kind \in {"invalid_structure", "sql_not_string",
                           "JSONDecodeError", "Exception"}

\* the filters the query text names
NamedFilters(q) ==
    ConditionsOf([where |-> _extract_network_filter(q) \o _extract_date_filter(q)])
    \cup (IF "treasury" \in q THEN {Condition("type", "'TreasuryProposal'")}
          ELSE {})

\* C28 as stated: the fallback returns SELECT COUNT(*) for an
\* aggregate-phrased question and SELECT * ... LIMIT 5 for an
\* example-phrased one, and every filter the query text names (network,
\* date range, proposal type) is a predicate of its WHERE clause.
C28_AsStated ==
    (FallbackPlanned /\ ~PlanRejected) =>
        LET q == request.user_query
            stmt == nlsql.plan.sql[1]
        IN  /\ "how many" \in q => stmt.count
            /\ ("show" \in q /\ "how many" \notin q) =>
                   (~stmt.count /\ stmt.columns = {} /\ stmt.tail[2] = 5)
            /\ NamedFilters(q) \subseteq ConditionsOf(stmt)

\* C30: every statement of the deterministic fallback passes the validator:
\* it is one SELECT over proposals with allow-listed columns, no dangerous
\* keyword and no comment, so plan_sql does not raise SQLSecurityError when
\* only the completion service failed.
C30_FallbackAccepted ==
    FallbackPlanned =>
        /\ ~PlanRejected
        /\ nlsql.plan.sql = _generate_fallback_sql(request.user_query).sql
        /\ Len(nlsql.plan.sql) = 1
        /\ LET stmt == nlsql.plan.sql[1]
           IN  /\ stmt.kind = "select"
               /\ stmt.tables = {TableRef("", "proposals", FALSE)}
               /\ {c.column : c \in ConditionsOf(stmt)} \subseteq ALLOWED_COLUMNS
               /\ {c.name : c \in stmt.columns} \subseteq ALLOWED_COLUMNS
               /\ stmt.words \cap dangerous_keywords = {}
               /\ stmt.comment = "none"

C30_Witness ==
    /\ FallbackPlanned
    /\ ~PlanRejected
    /\ nlsql.llm.kind = "Exception"
    /\ nlsql.plan.sql[1].count
    /\ Len(nlsql.plan.sql[1].where) = 4
    /\ pc = "_execute_sql"

\* =================================================================
\* Properties of the router
\* =================================================================
\* the router stage has run and returned
Routed == runs["router"] = 1 /\ raised = "none"

MatchesSqlClassifier(q) ==
    \/ _is_exact_lookup(q)
    \/ _is_mixed_query(q)
    \/ _is_analytical_query(q)
    \/ _is_date_filtered_query(q)
    \/ _is_filtered_query(q)

\* C16: the router returns the route of the first matching classifier in
\* the order exact-lookup, mixed, analytical, date-filtered,
\* structured-filter, semantic, default: sql_agent whenever one of the first
\* five matches (so for every query with 'how many'), retrieval_agent only
\* when none of them matches and the semantic classifier does, composer only
\* when no classifier matches; always one of the three.
C16_RouterPriority ==
    Routed =>
        LET q == state.query.cues
            route == state.route_decision
        IN  /\ route \in {"sql_agent", "retrieval_agent", "composer"}
            /\ MatchesSqlClassifier(q) => route = "sql_agent"
            /\ route = "retrieval_agent" =>
                   (~MatchesSqlClassifier(q) /\ _is_semantic_search_query(q))
            /\ route = "composer" =>
                   (~MatchesSqlClassifier(q) /\ ~_is_semantic_search_query(q))
            /\ "how many" \in q => route = "sql_agent"

C16_Witness ==
    /\ Routed
    /\ state.query.cues = {"find", "treasury", "clarys"}
    /\ state.route_decision = "sql_agent"

\* a query made only of entity names and search cues (and the word
\* 'proposal'), with no digit and no aggregate cue
BareCueQuery(q) ==
    /\ AnyIn(q, entity_names \cup search_patterns)
    /\ q \subseteq entity_names \cup search_patterns \cup {"proposal"}

\* C17 as stated: for every query that contains only a bare entity name or
\* search cue, with no digit and no aggregate cue, the router returns
\* retrieval_agent.
C17_AsStated ==
    (Routed /\ BareCueQuery(state.query.cues)) =>
        state.route_decision = "retrieval_agent"

NetworkOrTypeNames ==
    {"kusama", "polkadot", "treasury", "council", "referendum", "bounty", "tip"}

FilterVerbs == {"find", "what", "show me", "get"}

\* C17 amended: such a query is routed to retrieval_agent, except that it is
\* routed to sql_agent when it combines a network or proposal-type name
\* with one of the verbs find, what, show me, get; never to composer.
C17_BareCueRoute ==
    (Routed /\ BareCueQuery(state.query.cues)) =>
        LET q == state.query.cues
        IN  state.route_decision =
               IF AnyIn(q, NetworkOrTypeNames) /\ AnyIn(q, FilterVerbs)
               THEN "sql_agent" ELSE "retrieval_agent"

C17_Witness ==
    /\ Routed
    /\ state.query.cues = {"clarys", "proposal"}
    /\ state.route_decision = "retrieval_agent"

\* =================================================================
\* Properties of the hybrid search
\* =================================================================
\* _fuse_with_rrf has returned for this request
HasFused == pc \in {"_rerank_with_cohere", "top_k"}

FusedIds(fused) == [i \in 1..Len(fused) |-> fused[i].id]

Range(s) == {s[i] : i \in 1..Len(s)}

Distinct(s) == \A i, j \in 1..Len(s) : s[i] = s[j] => i = j

\* C18: for every pair of lexical and vector lists (disjoint, overlapping,
\* or with an id repeated within one list) the fused list holds each
\* document id at most once and holds every id of either input.
C18_FusedIdsUnique ==
    HasFused =>
        /\ Distinct(FusedIds(retrieval.fused))
        /\ Range(FusedIds(retrieval.fused)) =
               Range(retrieval.lexical) \cup Range(retrieval.vector)

C18_Witness ==
    /\ HasFused
    /\ ~Distinct(retrieval.vector)
    /\ Range(retrieval.lexical) \cap Range(retrieval.vector) # {}
    /\ Len(retrieval.fused) = 2

\* C19: for every ranked list L of distinct ids, fusing L with itself and
\* fusing L with the empty list both give the order of L, and every score
\* of the first fusion is exactly twice the score of the second.
C19_SelfFusionDoubles ==
    (HasFused /\ Distinct(retrieval.lexical)) =>
        LET L == retrieval.lexical
            alone == _fuse_with_rrf(L, <<>>, RRF_K)
        IN  /\ retrieval.vector = <<>> =>
                   (retrieval.fused = alone /\ FusedIds(retrieval.fused) = L)
            /\ retrieval.vector = L =>
                   /\ FusedIds(retrieval.fused) = L
                   /\ FusedIds(alone) = L
                   /\ \A i \in 1..Len(L) :
                         retrieval.fused[i].rrf_score = 2 * alone[i].rrf_score

C19_Witness ==
    /\ HasFused
    /\ Distinct(retrieval.lexical)
    /\ Len(retrieval.lexical) = MaxList
    /\ retrieval.vector = retrieval.lexical
    /\ retrieval.fused[1].rrf_score = 2 * Contribution(RRF_K, 0)

\* C20: when the call of the reranking service fails, search_proposals
\* raises nothing and returns what it returns with reranking disabled: the
\* fused order truncated to top_k, with the fused scores.
C20_RerankFailureFallsBack ==
    (retrieval.cohere.kind = "Exception" /\ pc = "returned") =>
        /\ retrieval.raised = "none"
        /\ retrieval.results =
               top_results(final_results(retrieval.fused, FALSE,
                                         retrieval.cohere_client, retrieval.cohere),
                           request.top_k)
        /\ retrieval.results =
               [i \in 1..Min(request.top_k, Len(retrieval.fused)) |->
                   [id |-> retrieval.fused[i].id,
                    score |-> retrieval.fused[i].rrf_score]]

C20_Witness ==
    /\ retrieval.cohere.kind = "Exception"
    /\ pc = "returned"
    /\ Len(retrieval.results) = request.top_k
    /\ Len(retrieval.fused) > request.top_k

\* C21: if the embedding provider fails while the query embedding is
\* computed, search_proposals returns the empty list (no lexical-only and
\* no zero-vector results).
C21_AsStated ==
    (pc = "returned" /\ retrieval.embedding = "zero_vector") =>
        retrieval.results = <<>>

\* C26: when reranking is applied to a fused list of more than RerankLimit
\* documents, the documents past position RerankLimit follow the reranked
\* ones in their fused order with their fused scores, and the first
\* RerankLimit documents come in the service's order with the service's
\* relevance scores as their scores.
C26_AsStated ==
    (/\ pc = "returned"
     /\ retrieval.cohere.kind = "ok"
     /\ Len(retrieval.fused) > RerankLimit
     /\ request.top_k >= Len(retrieval.fused)) =>
        /\ Len(retrieval.results) = Len(retrieval.fused)
        /\ \A i \in (RerankLimit + 1)..Len(retrieval.fused) :
              retrieval.results[i] =
                  [id |-> retrieval.fused[i].id,
                   score |-> retrieval.fused[i].rrf_score]
        /\ \A j \in 1..RerankLimit :
              /\ retrieval.results[j].id =
                     retrieval.fused[retrieval.cohere.order[j]].id
              /\ retrieval.results[j].score =
                     retrieval.cohere.relevance_score[j]

\* =================================================================
\* Properties of the workflow's stages
\* =================================================================
AgentRoutes == {"sql_agent", "retrieval_agent"}

\* C23 as stated (its safety part): in a run that returned, router ran
\* first, sql_agent ran iff the route is sql_agent and retrieval_agent iff it
\* is retrieval_agent, rerank ran after either of them and before composer,
\* on the direct route rerank did not run, and composer ran exactly once,
\* last.
C23_AsStated ==
    WorkflowReturned =>
        LET route == state.route_decision
            times == state.processing_times
        IN  /\ runs["router"] = 1
            /\ times["router"] = 1
            /\ runs["sql_agent"] = (IF route = "sql_agent" THEN 1 ELSE 0)
            /\ runs["retrieval_agent"] =
                   (IF route = "retrieval_agent" THEN 1 ELSE 0)
            /\ runs["rerank_node"] = (IF route \in AgentRoutes THEN 1 ELSE 0)
            /\ route \in AgentRoutes =>
                   /\ times[route] = 2
                   /\ times["rerank"] = 3
            /\ runs["composer"] = 1
            /\ times["composer"] = clock

\* the rerank stage leaves every field but reranked_results and its own
\* processing_times entry as it was
RerankFrame ==
    /\ \A field \in (DOMAIN state) \ {"reranked_results", "processing_times"} :
          state'[field] = state[field]
    /\ DOMAIN state'.processing_times =
           (DOMAIN state.processing_times) \cup {"rerank"}
    /\ \A stage \in (DOMAIN state.processing_times) \ {"rerank"} :
          state'.processing_times[stage] = state.processing_times[stage]

\* C24 as stated: the rerank stage sets reranked_results to
\* sql_result.examples whenever sql_result is populated, whether or not
\* retrieval_hits is non-empty, to retrieval_hits only when sql_result is not
\* populated, otherwise to the empty list, and changes nothing else but its
\* own processing_times entry.
C24_AsStated ==
    [][pc = "rerank_node" =>
          /\ state'.reranked_results =
                 IF state.sql_result.kind = "dict" THEN state.sql_result.examples
                 ELSE IF state.retrieval_hits # <<>> THEN state.retrieval_hits
                 ELSE <<>>
          /\ RerankFrame]_vars

\* C24: the rerank stage sets reranked_results to sql_result.examples
\* whenever sql_result is populated and carries no error, whether or not
\* retrieval_hits is non-empty; to retrieval_hits when sql_result is unset or
\* carries an error and retrieval_hits is non-empty; otherwise to the empty
\* list.  It changes nothing else but its own processing_times entry.
C24_RerankPrecedence ==
    [][pc = "rerank_node" =>
          /\ state'.reranked_results =
                 IF state.sql_result.kind = "dict" /\ ~state.sql_result.error
                 THEN state.sql_result.examples
                 ELSE IF state.retrieval_hits # <<>> THEN state.retrieval_hits
                 ELSE <<>>
          /\ RerankFrame]_vars

C24_Witness ==
    /\ runs["rerank_node"] = 1
    /\ state.sql_result.kind = "dict"
    /\ ~state.sql_result.error
    /\ state.retrieval_hits # <<>>
    /\ Len(state.sql_result.examples) = 1
    /\ state.reranked_results = state.sql_result.examples
    /\ DOMAIN state.processing_times = {"router", "rerank"}

\* the processing_times key of a stage
TimeKey(stage) == IF stage = "rerank_node" THEN "rerank" ELSE stage

\* C25: during a run the key set of processing_times only grows: a step
\* that changes the state is the step of a stage that finished and adds the
\* entry of that stage, leaving the entry of every other stage as it was;
\* when the workflow has returned the keys are exactly the stages that ran.
C25_TimesOnlyGrow ==
    /\ [][state' # state =>
             /\ pc \in Stages
             /\ DOMAIN state'.processing_times =
                    (DOMAIN state.processing_times) \cup {TimeKey(pc)}
             /\ \A key \in (DOMAIN state.processing_times) \ {TimeKey(pc)} :
                   state'.processing_times[key] = state.processing_times[key]]_vars
    /\ [](WorkflowReturned =>
             DOMAIN state.processing_times =
                 {TimeKey(stage) : stage \in {st \in Stages : runs[st] > 0}})

C25_Witness ==
    /\ WorkflowReturned
    /\ executor = "graph"
    /\ DOMAIN state.processing_times =
           {"router", "retrieval_agent", "rerank", "composer"}
    /\ state.processing_times["router"] < state.processing_times["composer"]

\* -----------------------------------------------------------------
\* C29: under every interleaving of concurrent first calls of get_pool the
\* pool is created at most once, every caller that returns holds the same
\* pool object, and every created pool is still the global one (none is
\* dropped unclosed).
C29_AsStated ==
    /\ Cardinality(app_db.pools) <= 1
    /\ \A t, u \in Tasks :
          (app_db.tasks[t].pc = "returned" /\ app_db.tasks[u].pc = "returned")
              => app_db.tasks[t].pool = app_db.tasks[u].pool
    /\ app_db.pools \subseteq {app_db.pool}

\* -----------------------------------------------------------------
\* C22: under every interleaving of concurrent get_embedding callers, the
\* requests and the tokens counted in a one-minute window that has not
\* elapsed never exceed requests_per_minute and tokens_per_minute.
C22_AsStated ==
    (provider.time - provider.last_request_time < Minute) =>
        /\ provider.request_count <= requests_per_minute
        /\ provider.token_count <= tokens_per_minute

====
